---------------------------- MODULE Spec2Model ----------------------------
(***************************************************************************)
(* Conversation state machine of the money-mentor chat assistant           *)
(* (src/app.py chat_fn, src/backend/main.py process_query and the intent   *)
(* handlers, src/backend/helper.py) together with the calculation engine   *)
(* it calls (src/backend/cashflow.py, src/backend/utils.py).               *)
(*                                                                         *)
(* Conventions                                                             *)
(*  - state["data"] is a Python dict: it is modelled as a function whose   *)
(*    DOMAIN is the set of keys present.  None is the string NoneV, the    *)
(*    booleans stored in super_included are the strings "True"/"False".    *)
(*  - money is in whole dollars (fixed point, rounded down), percentages   *)
(*    of constants.py are in tenths of a percent, fee rates in basis       *)
(*    points, the monthly return in parts per million.                     *)
(*  - the text of prompts and answers is not modelled; what the Language   *)
(*    Inference Service returns is an input drawn from bounded sets.       *)
(***************************************************************************)
EXTENDS Integers, Sequences, FiniteSets, TLC

VARIABLES
    data,          \* state["data"]
    missing_var,   \* state["missing_var"] (NoneV when Idle)
    last,          \* what the last turn did (history, read by the properties)
    turn,          \* number of turns taken (bounded by MaxTurns)
    llm,           \* a call of the Language Inference Service in progress
    calc           \* a call of a function of the calculation engine

vars == <<data, missing_var, last, turn, llm, calc>>

\* no call of the calculation engine is followed
NoCalc == [fn |-> "none"]

NoneV == "None"
TrueV == "True"
FalseV == "False"

MaxTurns == 3

-----------------------------------------------------------------------------
(* Python dict helpers *)

Has(d, k) == k \in DOMAIN d

\* d.get(k, 0) for the numeric keys
GetNum(d, k) == IF Has(d, k) THEN d[k] ELSE 0

\* d.get(k) for the string / boolean / enum keys
GetStr(d, k) == IF Has(d, k) THEN d[k] ELSE NoneV

\* truth value of a string or None
TruthyStr(v) == v \notin {NoneV, ""}

\* d[k] = v
Put(d, k, v) == (k :> v) @@ d

\* del d[k] / d.pop(k, None)
Del(d, k) == [x \in (DOMAIN d) \ {k} |-> d[x]]

Min(a, b) == IF a < b THEN a ELSE b
Max(a, b) == IF a > b THEN a ELSE b

-----------------------------------------------------------------------------
(* backend/helper.py: the calls of the Language Inference Service.  The      *)
(* service is an input: fails[i] says whether its i-th attempt of the call   *)
(* fails with an exception, reply is what it answers when it does not.  The  *)
(* delays between attempts are not modelled.                                 *)

\* stop_after_attempt(5) of the @retry decorator of ask_llm
StopAfterAttempt == 5

Apology == "I apologize, but I'm having trouble processing your request right now."

LlmReplies == {"reply a", "reply b"}

NoCall ==
    [kind |-> "none", fails |-> [i \in 1..StopAfterAttempt |-> FALSE], reply |-> NoneV,
     attempts |-> 0, status |-> "none", result |-> NoneV]

\* the body of ask_llm (lines 38-55): every exception of the service is caught
\* and the apology returned
AskLlmBody(failed, reply) ==
    IF failed THEN [raised |-> FALSE, value |-> Apology]
    ELSE [raised |-> FALSE, value |-> reply]

\* the call made by extract_intent_variables (lines 332-340): an exception of
\* the service reaches the handler of lines 397-399, which raises it again
ExtractCallBody(failed, reply) ==
    IF failed THEN [raised |-> TRUE, value |-> NoneV]
    ELSE [raised |-> FALSE, value |-> reply]

\* tenacity's @retry (lines 31-36) around a body that made its attempts-th
\* attempt: another attempt after an exception, until stop_after_attempt
Retrying(call, outcome, attempts) ==
    IF outcome.raised
    THEN IF attempts < StopAfterAttempt
         THEN [call EXCEPT !.attempts = attempts]
         ELSE [call EXCEPT !.attempts = attempts, !.status = "raised"]
    ELSE [call EXCEPT !.attempts = attempts, !.status = "returned", !.result = outcome.value]

\* one attempt of ask_llm
AskLlmAttempt ==
    /\ llm.kind = "ask_llm"
    /\ llm.status = "pending"
    /\ llm' = Retrying(llm, AskLlmBody(llm.fails[llm.attempts + 1], llm.reply),
                       llm.attempts + 1)
    /\ UNCHANGED <<data, missing_var, last, turn, calc>>

\* the single attempt of the call of extract_intent_variables, which no
\* decorator wraps
ExtractCallAttempt ==
    /\ llm.kind = "extract_intent_variables"
    /\ llm.status = "pending"
    /\ LET outcome == ExtractCallBody(llm.fails[llm.attempts + 1], llm.reply)
       IN  llm' = [llm EXCEPT !.attempts = llm.attempts + 1,
                              !.status = IF outcome.raised THEN "raised" ELSE "returned",
                              !.result = outcome.value]
    /\ UNCHANGED <<data, missing_var, last, turn, calc>>

-----------------------------------------------------------------------------
(* backend/constants.py: economic_assumptions, in tenths of a percent *)

WAGE_GROWTH == 30
EMPLOYER_CONTRIBUTION_RATE == 120
INVESTMENT_RETURN == 80
INFLATION_RATE == 25
RETIREMENT_INVESTMENT_RETURN == 60

-----------------------------------------------------------------------------
(* backend/cashflow.py *)

calculate_income_net_of_super(income, super_included, employer_contribution_rate) ==
    IF super_included = TrueV
    THEN (income * 1000) \div (1000 + employer_contribution_rate)
    ELSE income

\* (min_income, max_income, rate in thousandths, base); the last bracket is open
tax_brackets ==
    << [min |-> 0,      max |-> 18200,  open |-> FALSE, rate |-> 0,   base |-> 0],
       [min |-> 18201,  max |-> 45000,  open |-> FALSE, rate |-> 160, base |-> 0],
       [min |-> 45001,  max |-> 135000, open |-> FALSE, rate |-> 300, base |-> 4288],
       [min |-> 135001, max |-> 190000, open |-> FALSE, rate |-> 370, base |-> 31288],
       [min |-> 190001, max |-> 0,      open |-> TRUE,  rate |-> 450, base |-> 51638] >>

\* one pass of the loop over tax_brackets, in thousandths of a dollar
BracketTax(b, n) ==
    IF n > b.min
    THEN ((IF b.open THEN n ELSE Min(n, b.max)) - b.min) * b.rate
         + (IF (~b.open) /\ n >= b.max THEN b.base * 1000 ELSE 0)
    ELSE 0

RECURSIVE BaseTax(_, _)
BaseTax(i, n) ==
    IF i > Len(tax_brackets) THEN 0
    ELSE BracketTax(tax_brackets[i], n) + BaseTax(i + 1, n)

LowIncomeTaxOffset(n) ==
    IF n <= 37500 THEN 700000
    ELSE IF n <= 45000 THEN 700000 - (n - 37500) * 50
    ELSE IF n <= 66667 THEN 325000 - (n - 45000) * 15
    ELSE 0

SeniorsOffset(n, age) ==
    IF age >= 67
    THEN IF n <= 32279 THEN 2230000
         ELSE IF n <= 50119 THEN 2230000 - (n - 32279) * 125
         ELSE 0
    ELSE 0

\* the total tax without its floor
TotalTaxUnfloored(n, age) ==
    BaseTax(1, n) + n * 20 - LowIncomeTaxOffset(n) - SeniorsOffset(n, age)

\* total_tax in thousandths of a dollar, floored at 0
TotalTax(n, age) ==
    Max(0, BaseTax(1, n) + n * 20 - LowIncomeTaxOffset(n) - SeniorsOffset(n, age))

calculate_after_tax_income(income, age, super_included, employer_contribution_rate) ==
    LET n == calculate_income_net_of_super(income, super_included, employer_contribution_rate)
    IN  (n * 1000 - TotalTax(n, age)) \div 1000

-----------------------------------------------------------------------------
(* Fund reference table (superfunds.csv, external): the rows the model uses *)

FundTable ==
    [ART |-> [ApproachType |-> "AGE", AgeMin |-> 0, AgeMax |-> 120,
              InvestmentFee |-> 50,
              AdminFee |-> << [min_bal |-> 0, max_bal |-> 500000, rate |-> 10] >>,
              MemberFee |-> 52]]

FundNames == DOMAIN FundTable

NoRow == [ApproachType |-> "NONE"]

\* match_fund_name: the matcher returns a name of the table or None
match_fund_name(input_fund) ==
    IF input_fund \in FundNames THEN input_fund
    ELSE IF input_fund = "art" THEN "ART"
    ELSE NoneV

\* find_applicable_funds(filter_dataframe_by_fund_name(df, fund, exact), age).iloc[0]:
\* is_filtered is always False, so the AGE rows matching the age are returned and,
\* when there is none, the fund's AGE rows whatever their range
find_applicable_funds(fund, user_age) ==
    IF fund \in FundNames /\ FundTable[fund].ApproachType = "AGE"
    THEN FundTable[fund]
    ELSE NoRow

RECURSIVE compute_tiered_admin_fee(_, _, _)
compute_tiered_admin_fee(tiers, i, balance) ==
    IF i > Len(tiers) THEN 0
    ELSE IF balance <= tiers[i].min_bal THEN 0
    ELSE (Max(0, Min(balance, tiers[i].max_bal) - tiers[i].min_bal) * tiers[i].rate) \div 10000
         + compute_tiered_admin_fee(tiers, i + 1, balance)

\* breakdown["total_fee"]
compute_fee_breakdown(row, balance) ==
    (balance * row.InvestmentFee) \div 10000
    + compute_tiered_admin_fee(row.AdminFee, 1, balance)
    + row.MemberFee

-----------------------------------------------------------------------------
(* backend/utils.py: projection and drawdown *)

\* (1 + net_annual_return/100) ** (1/12) - 1, in parts per million, for the
\* net annual returns (tenths of a percent) the program uses
NetMonthlyReturn(net_annual_return) ==
    CASE net_annual_return = 0 -> 0
      [] net_annual_return = 55 -> 4472
      [] net_annual_return = 35 -> 2871
      [] OTHER -> (net_annual_return * 1000) \div 12

\* income * (1 + wage_growth/100) ** year
RECURSIVE GrowYears(_, _, _)
GrowYears(amount, rate, years) ==
    IF years = 0 THEN amount
    ELSE IF years > 0 THEN GrowYears((amount * (1000 + rate)) \div 1000, rate, years - 1)
    ELSE GrowYears((amount * 1000) \div (1000 + rate), rate, years + 1)

\* a step whose salary grows with the calendar year the month falls in
ProjectStepCalendarYear(month, balance, income_net_of_super, wage_growth, employer_contribution_rate, net_monthly_return, row) ==
    LET year == month \div 12
        current_annual_salary == GrowYears(income_net_of_super, wage_growth, year)
        monthly_contribution ==
            (current_annual_salary * employer_contribution_rate * 85) \div (1000 * 100 * 12)
        monthly_fee == compute_fee_breakdown(row, balance) \div 12
        x == balance + monthly_contribution - monthly_fee
    IN  x + (x * net_monthly_return) \div 1000000

\* one iteration of the monthly loop of project_super_balance
ProjectStep(month, balance, income_net_of_super, wage_growth, employer_contribution_rate, net_monthly_return, row) ==
    LET year == (month - 1) \div 12
        current_annual_salary == GrowYears(income_net_of_super, wage_growth, year)
        monthly_contribution ==
            (current_annual_salary * employer_contribution_rate * 85) \div (1000 * 100 * 12)
        monthly_fee == compute_fee_breakdown(row, balance) \div 12
        x == balance + monthly_contribution - monthly_fee
    IN  x + (x * net_monthly_return) \div 1000000

\* n passes of `for month in range(1, total_months + 1)` on s = <<month, balance>>,
\* a pass made after the last month changing nothing; evaluated by halving so
\* that the depth of the evaluation stays logarithmic in n
RECURSIVE ProjectRun(_, _, _, _, _, _, _, _)
ProjectRun(s, n, total_months, income_net_of_super, wage_growth, employer_contribution_rate, net_monthly_return, row) ==
    IF n <= 0 \/ s[1] > total_months THEN s
    ELSE IF n = 1
    THEN <<s[1] + 1, ProjectStep(s[1], s[2], income_net_of_super, wage_growth,
                                 employer_contribution_rate, net_monthly_return, row)>>
    ELSE LET half == ProjectRun(s, n \div 2, total_months, income_net_of_super, wage_growth,
                                employer_contribution_rate, net_monthly_return, row)
         IN  ProjectRun(half, n - (n \div 2), total_months, income_net_of_super, wage_growth,
                        employer_contribution_rate, net_monthly_return, row)

ProjectLoop(month, total_months, balance, income_net_of_super, wage_growth, employer_contribution_rate, net_monthly_return, row) ==
    ProjectRun(<<month, balance>>, total_months, total_months, income_net_of_super,
               wage_growth, employer_contribution_rate, net_monthly_return, row)[2]

\* a projection that applies the investment return without taking inflation off
ProjectNominalReturn(current_age, retirement_age, current_balance, income_net_of_super, wage_growth, employer_contribution_rate, investment_return, inflation_rate, row) ==
    ProjectLoop(1, (retirement_age - current_age) * 12, current_balance,
                income_net_of_super, wage_growth, employer_contribution_rate,
                NetMonthlyReturn(investment_return), row)

project_super_balance(current_age, retirement_age, current_balance, income_net_of_super, wage_growth, employer_contribution_rate, investment_return, inflation_rate, row) ==
    ProjectLoop(1, (retirement_age - current_age) * 12, current_balance,
                income_net_of_super, wage_growth, employer_contribution_rate,
                NetMonthlyReturn(investment_return - inflation_rate), row)

DrawdownCap == 1200

\* the while loop of calculate_retirement_drawdown (no fund row is ever passed);
\* yields the number of months run
\* one month of the loop (lines 489-492): growth added, income drawn
DrawdownStep(balance, monthly_income, net_monthly_return) ==
    balance + (balance * net_monthly_return) \div 1000000 - monthly_income

\* one pass of `while balance > 0 and months < 1200` on s = <<balance, months>>;
\* a pass made after the loop has ended changes nothing
DrawdownIter(s, monthly_income, net_monthly_return) ==
    IF s[1] > 0 /\ s[2] < DrawdownCap
    THEN <<DrawdownStep(s[1], monthly_income, net_monthly_return), s[2] + 1>>
    ELSE s

\* n passes of the loop, evaluated by halving so that the depth of the
\* evaluation stays logarithmic in n
RECURSIVE DrawdownRun(_, _, _, _)
DrawdownRun(s, n, monthly_income, net_monthly_return) ==
    IF n = 0 \/ ~(s[1] > 0 /\ s[2] < DrawdownCap) THEN s
    ELSE IF n = 1 THEN DrawdownIter(s, monthly_income, net_monthly_return)
    ELSE LET half == DrawdownRun(s, n \div 2, monthly_income, net_monthly_return)
         IN  DrawdownRun(half, n - (n \div 2), monthly_income, net_monthly_return)

\* the loop ends within 1200 passes, months being counted up to the cap
DrawdownLoop(balance, months, monthly_income, net_monthly_return) ==
    DrawdownRun(<<balance, months>>, DrawdownCap, monthly_income, net_monthly_return)[2]

\* a drawdown that reports the age reached whatever the number of months
DrawdownWithoutSentinel(retirement_balance, retirement_age, annual_income, investment_return, inflation_rate) ==
    retirement_age + (DrawdownLoop(retirement_balance, 0, annual_income \div 12,
                                   NetMonthlyReturn(investment_return - inflation_rate))
                      \div 12)

calculate_retirement_drawdown(retirement_balance, retirement_age, annual_income, investment_return, inflation_rate) ==
    LET months == DrawdownLoop(retirement_balance, 0, annual_income \div 12,
                               NetMonthlyReturn(investment_return - inflation_rate))
    IN  IF months >= DrawdownCap THEN 200 ELSE retirement_age + (months \div 12)

\* backend/constants.py: age_pension_params, dollars; the taper and deeming
\* rates as integers: ASSETS_TAPER_RATE per 100000, INCOME_TAPER_RATE per 100,
\* DEEMING_RATE_* per 1000
MAX_PENSION_SINGLE == 30558
MAX_PENSION_COUPLE == 46065
ASSETS_THRESHOLD_HOMEOWNER_SINGLE == 294500
ASSETS_THRESHOLD_HOMEOWNER_COUPLE == 443500
ASSETS_THRESHOLD_NON_HOMEOWNER_SINGLE == 505500
ASSETS_THRESHOLD_NON_HOMEOWNER_COUPLE == 654500
ASSETS_TAPER_RATE == 375
INCOME_THRESHOLD_SINGLE == 198
INCOME_THRESHOLD_COUPLE == 352
INCOME_TAPER_RATE == 50
DEEMING_THRESHOLD_SINGLE == 60400
DEEMING_THRESHOLD_COUPLE == 100800
DEEMING_RATE_LOWER == 20
DEEMING_RATE_HIGHER == 35

\* a threshold that takes everyone for a homeowner
AssetsThresholdHomeowner(relationship_status, homeowner_status) ==
    IF relationship_status = "single" THEN ASSETS_THRESHOLD_HOMEOWNER_SINGLE
    ELSE ASSETS_THRESHOLD_HOMEOWNER_COUPLE

\* the assets threshold for the relationship and homeowner status (lines 561-570)
AssetsThreshold(relationship_status, homeowner_status) ==
    IF relationship_status = "single"
    THEN IF homeowner_status THEN ASSETS_THRESHOLD_HOMEOWNER_SINGLE
         ELSE ASSETS_THRESHOLD_NON_HOMEOWNER_SINGLE
    ELSE IF homeowner_status THEN ASSETS_THRESHOLD_HOMEOWNER_COUPLE
         ELSE ASSETS_THRESHOLD_NON_HOMEOWNER_COUPLE

\* calculate_age_pension: the inputs in dollars, every amount of the result an
\* annual one in ten-thousandths of a dollar (the fortnightly amounts of the
\* code times 26), so that the tapers 0.5 and 0.00375 * 26 are exact
calculate_age_pension(relationship_status, homeowner_status, total_assets, current_income, financial_assets) ==
    LET single == relationship_status = "single"
        max_pension == 10000 * (IF single THEN MAX_PENSION_SINGLE ELSE MAX_PENSION_COUPLE)
        assets_threshold == AssetsThreshold(relationship_status, homeowner_status)
        deeming_threshold == IF single THEN DEEMING_THRESHOLD_SINGLE
                             ELSE DEEMING_THRESHOLD_COUPLE
        deemed_income ==
            IF financial_assets <= deeming_threshold
            THEN financial_assets * DEEMING_RATE_LOWER * 10
            ELSE deeming_threshold * DEEMING_RATE_LOWER * 10
                 + (financial_assets - deeming_threshold) * DEEMING_RATE_HIGHER * 10
        total_income == current_income * 10000 + deemed_income
        income_threshold == 26 * 10000 * (IF single THEN INCOME_THRESHOLD_SINGLE
                                          ELSE INCOME_THRESHOLD_COUPLE)
        excess == total_income - income_threshold
        \* excess * INCOME_TAPER_RATE / 100, the product taken in two parts
        reduction == (excess \div 100) * INCOME_TAPER_RATE
                     + ((excess % 100) * INCOME_TAPER_RATE) \div 100
        income_test == IF total_income <= income_threshold THEN max_pension
                       ELSE Max(0, max_pension - reduction)
        assets_test == IF total_assets <= assets_threshold THEN max_pension
                       ELSE Max(0, max_pension - (total_assets - assets_threshold)
                                                 * ((ASSETS_TAPER_RATE * 26) \div 10))
    IN  [annual_pension |-> Min(income_test, assets_test),
         income_test_pension_annual |-> income_test,
         assets_test_pension_annual |-> assets_test,
         determining_test |-> IF income_test <= assets_test THEN "income" ELSE "assets",
         deemed_income_annual |-> deemed_income,
         max_pension_annual |-> max_pension]

AsfaOptions == {"modest_single", "modest_couple", "comfortable_single", "comfortable_couple"}

get_asfa_standards(option) ==
    CASE option = "modest_single" -> 32000
      [] option = "modest_couple" -> 46000
      [] option = "comfortable_single" -> 52000
      [] option = "comfortable_couple" -> 75000

-----------------------------------------------------------------------------
(* Text to number conversions.  A text is a sequence of one-character      *)
(* strings; the conversions are computed character by character.           *)

IsDigit(c) == c \in {"0", "1", "2", "3", "4", "5", "6", "7", "8", "9"}

DigitVal(c) ==
    CASE c = "0" -> 0 [] c = "1" -> 1 [] c = "2" -> 2 [] c = "3" -> 3 [] c = "4" -> 4
      [] c = "5" -> 5 [] c = "6" -> 6 [] c = "7" -> 7 [] c = "8" -> 8 [] c = "9" -> 9

\* str.lower() on the characters that matter
Lower(c) == IF c = "K" THEN "k" ELSE IF c = "M" THEN "m" ELSE c

RECURSIVE RemoveChars(_, _)
RemoveChars(s, drop) ==
    IF s = << >> THEN << >>
    ELSE IF Head(s) \in drop THEN RemoveChars(Tail(s), drop)
    ELSE << Lower(Head(s)) >> \o RemoveChars(Tail(s), drop)

Pow10(n) == CASE n = 0 -> 1 [] n = 1 -> 10 [] n = 2 -> 100 [] OTHER -> 1000

\* int() truncation towards zero of a / b
Trunc(a, b) == IF a >= 0 THEN a \div b ELSE -((-a) \div b)

\* scan of [0-9.]+ : the digits read as an integer and the number of decimals;
\* ok is FALSE on any other character, on a second point and on no digit at all
RECURSIVE ScanNumber(_, _, _, _, _)
ScanNumber(s, mant, dec, seenDot, nDigits) ==
    IF s = << >> THEN [ok |-> nDigits > 0, mant |-> mant, dec |-> dec]
    ELSE IF IsDigit(Head(s))
         THEN ScanNumber(Tail(s), mant * 10 + DigitVal(Head(s)),
                         IF seenDot THEN dec + 1 ELSE dec, seenDot, nDigits + 1)
    ELSE IF Head(s) = "." /\ ~seenDot
         THEN ScanNumber(Tail(s), mant, dec, TRUE, nDigits)
    ELSE [ok |-> FALSE, mant |-> 0, dec |-> 0]

\* float(text): an optional sign then digits with at most one point; ok = FALSE
\* stands for ValueError
ParseFloat(s) ==
    IF s # << >> /\ Head(s) = "-"
    THEN LET r == ScanNumber(Tail(s), 0, 0, FALSE, 0)
         IN  [ok |-> r.ok, mant |-> -r.mant, dec |-> r.dec]
    ELSE ScanNumber(s, 0, 0, FALSE, 0)

SuffixFactor(c) == IF c = "k" THEN 1000 ELSE IF c = "m" THEN 1000000 ELSE 1

\* backend/main.py parse_numeric_with_suffix: ^([\d.]+)([km])?$ after removing
\* commas; 0 when the text does not match
parse_numeric_with_suffix(value_str) ==
    LET s == RemoveChars(value_str, {",", " "})
        hasSuffix == s # << >> /\ s[Len(s)] \in {"k", "m"}
        body == IF hasSuffix THEN SubSeq(s, 1, Len(s) - 1) ELSE s
        r == ScanNumber(body, 0, 0, FALSE, 0)
    IN  IF r.ok /\ r.dec <= 3
        THEN (r.mant * (IF hasSuffix THEN SuffixFactor(s[Len(s)]) ELSE 1)) \div Pow10(r.dec)
        ELSE 0

\* parse_numeric_with_suffix raises ValueError when ^([\d.]+)([km])?$ matches
\* and float() refuses the first group (two points, or points alone)
ParseNumericRaises(value_str) ==
    LET s == RemoveChars(value_str, {",", " "})
        hasSuffix == s # << >> /\ s[Len(s)] \in {"k", "m"}
        body == IF hasSuffix THEN SubSeq(s, 1, Len(s) - 1) ELSE s
    IN  /\ body # << >>
        /\ \A i \in 1..Len(body) : IsDigit(body[i]) \/ body[i] = "."
        /\ ~ScanNumber(body, 0, 0, FALSE, 0).ok

\* backend/utils.py convert_variable_type, the branch of the type "currency" on
\* a string (lines 93-107); [ok |-> FALSE] is the None returned on ValueError
ConvertCurrency(value) ==
    LET clean == RemoveChars(value, {"$", ",", " "})
        hasSuffix == clean # << >> /\ clean[Len(clean)] \in {"k", "m"}
        body == IF hasSuffix THEN SubSeq(clean, 1, Len(clean) - 1) ELSE clean
        r == ParseFloat(body)
        factor == IF hasSuffix THEN SuffixFactor(clean[Len(clean)]) ELSE 1
    IN  IF r.ok /\ r.dec <= 3
        THEN [ok |-> TRUE, value |-> Trunc(r.mant * factor, Pow10(r.dec))]
        ELSE [ok |-> FALSE]

\* str.lower() and str.strip() on a text
UpperCase == <<"A", "B", "C", "D", "E", "F", "G", "H", "I", "J", "K", "L", "M", "N", "O", "P", "Q", "R", "S", "T", "U", "V", "W", "X", "Y", "Z">>

LowerCase == <<"a", "b", "c", "d", "e", "f", "g", "h", "i", "j", "k", "l", "m", "n", "o", "p", "q", "r", "s", "t", "u", "v", "w", "x", "y", "z">>

LowerLetter(c) ==
    IF \E i \in 1..Len(UpperCase) : UpperCase[i] = c
    THEN LowerCase[CHOOSE i \in 1..Len(UpperCase) : UpperCase[i] = c]
    ELSE c

LowerText(s) == [i \in 1..Len(s) |-> LowerLetter(s[i])]

RECURSIVE StripText(_)
StripText(s) ==
    IF s = << >> THEN s
    ELSE IF Head(s) = " " THEN StripText(Tail(s))
    ELSE IF s[Len(s)] = " " THEN StripText(SubSeq(s, 1, Len(s) - 1))
    ELSE s

\* true_value in value_lower
IsInfix(p, s) == \E i \in 0..(Len(s) - Len(p)) : SubSeq(s, i + 1, i + Len(p)) = p

\* backend/utils.py VARIABLE_TYPE_MAP: the phrases of the boolean variables
true_values(variable_name) ==
    IF variable_name = "super_included"
    THEN { <<"y", "e", "s">>,
           <<"t", "r", "u", "e">>,
           <<"i", "n", "c", "l", "u", "d", "e", "d">>,
           <<"i", "n", "c", "l", "u", "d", "e", "s">>,
           <<"p", "a", "r", "t", " ", "o", "f">>,
           <<"p", "a", "c", "k", "a", "g", "e">> }
    ELSE { <<"o", "w", "n">>,
           <<"y", "e", "s">>,
           <<"h", "o", "m", "e", "o", "w", "n", "e", "r">>,
           <<"i", " ", "o", "w", "n">>,
           <<"o", "w", "n", " ", "h", "o", "m", "e">>,
           <<"t", "r", "u", "e">> }

false_values(variable_name) ==
    IF variable_name = "super_included"
    THEN { <<"n", "o">>,
           <<"f", "a", "l", "s", "e">>,
           <<"n", "o", "t", " ", "i", "n", "c", "l", "u", "d", "e", "d">>,
           <<"s", "e", "p", "a", "r", "a", "t", "e">>,
           <<"o", "n", " ", "t", "o", "p">>,
           <<"a", "d", "d", "i", "t", "i", "o", "n", "a", "l">> }
    ELSE { <<"r", "e", "n", "t">>,
           <<"n", "o">>,
           <<"r", "e", "n", "t", "i", "n", "g">>,
           <<"i", " ", "r", "e", "n", "t">>,
           <<"t", "e", "n", "a", "n", "t">>,
           <<"f", "a", "l", "s", "e">> }

\* backend/utils.py convert_variable_type, the branch of the type "boolean" on
\* a string (lines 69-80): the true phrases are searched first
ConvertBoolean(variable_name, value) ==
    LET value_lower == StripText(LowerText(value))
    IN  IF \E true_value \in true_values(variable_name) : IsInfix(true_value, value_lower)
        THEN TrueV
        ELSE IF \E false_value \in false_values(variable_name) : IsInfix(false_value, value_lower)
             THEN FalseV
        ELSE NoneV

\* an age check that shuts the two ends of the range out
AgeOutOfRangeExclusive(value) == value <= 15 \/ value >= 100

\* validate_response, the rule of "age" (line 117)
AgeOutOfRange(value) == value < 15 \/ value > 100

\* a retirement-age check that lets the current age itself through
RetirementAgeRejectedBelow(value, context) ==
    value < GetNum(context, "current_age") \/ value > 100

\* validate_response, the rule of "desired retirement age" (lines 119-122)
RetirementAgeRejected(value, context) ==
    value <= GetNum(context, "current_age") \/ value > 100

\* backend/main.py validate_response: (is_valid, parsed_value); the value is
\* left out where the code returns None, and an exception of the parse is
\* caught and gives (False, None)
validate_response(var_name, user_message, context) ==
    IF var_name \in {"current income", "age", "super balance", "desired retirement age"}
    THEN IF ParseNumericRaises(user_message) THEN [valid |-> FALSE]
         ELSE LET value == parse_numeric_with_suffix(user_message)
              IN  IF var_name = "age" /\ AgeOutOfRange(value) THEN [valid |-> FALSE]
                  ELSE IF /\ var_name = "desired retirement age"
                          /\ RetirementAgeRejected(value, context)
                       THEN [valid |-> FALSE]
                  ELSE IF var_name \in {"current income", "super balance"} /\ value < 0
                       THEN [valid |-> FALSE]
                  ELSE [valid |-> value > 0, value |-> value]
    ELSE [valid |-> TRUE, text |-> user_message]

-----------------------------------------------------------------------------
(* app.py extract_variable_from_response *)

\* var_map, shared by chat_fn and extract_variable_from_response: the marker of
\* a question to the key of state["data"]
var_map(marker) ==
    CASE marker = "age" -> "current_age"
      [] marker = "super balance" -> "current_balance"
      [] marker = "current income" -> "current_income"
      [] marker = "desired retirement age" -> "retirement_age"
      [] marker = "current fund" -> "current_fund"
      [] marker = "nominated fund" -> "nominated_fund"
      [] OTHER -> marker

numeric_vars == {"current_age", "current_balance", "current_income", "retirement_age",
                 "income_net_of_super", "after_tax_income", "retirement_balance",
                 "retirement_income", "retirement_drawdown_age"}

int_vars == {"current_age", "retirement_age", "retirement_drawdown_age"}

boolean_vars == {"super_included"}

fund_vars == {"current_fund", "nominated_fund"}

\* the result when nothing usable was extracted: {} or {'variable': v, 'value': None}
NoExtraction == [ok |-> FALSE]

\* the string branch of the numeric conversion (lines 448-473)
ConvertNumericText(expected_var, text) ==
    LET clean == RemoveChars(text, {"$", ",", " "})
        money == expected_var \in {"current_balance", "current_income"}
        hasSuffix == money /\ clean # << >> /\ clean[Len(clean)] \in {"k", "m"}
        body == IF hasSuffix THEN SubSeq(clean, 1, Len(clean) - 1) ELSE clean
        r == ParseFloat(body)
        factor == IF hasSuffix THEN SuffixFactor(clean[Len(clean)]) ELSE 1
    IN  IF r.ok /\ r.dec <= 3
        THEN [ok |-> TRUE, value |-> Trunc(r.mant * factor, Pow10(r.dec)), income |-> -1]
        ELSE NoExtraction

\* the boolean branch (lines 476-489); interp is the answer of the interpreter
\* call made for a phrase that is in neither list
ConvertBooleanText(phrase, interp) ==
    IF phrase \in {"yes", "true", "included", "includes", "part of", "package"} THEN TrueV
    ELSE IF phrase \in {"no", "false", "not included", "separate", "on top", "additional"}
         THEN FalseV
    ELSE IF interp = "included" THEN TrueV ELSE FalseV

\* the retirement_income_option branch (lines 492-528) on a lowered phrase:
\* amount is the text of the number the phrase holds, << >> when it holds none
ConvertOptionText(phrase, amount, interp) ==
    IF amount # << >>
    THEN [ok |-> TRUE, value |-> "custom", income |-> parse_numeric_with_suffix(amount)]
    ELSE IF phrase \in {"same", "current", "as now", "as my current"}
         THEN [ok |-> TRUE, value |-> "same_as_current", income |-> -1]
    ELSE IF phrase \in {"modest single"}
         THEN [ok |-> TRUE, value |-> "modest_single", income |-> -1]
    ELSE IF phrase \in {"modest couple"}
         THEN [ok |-> TRUE, value |-> "modest_couple", income |-> -1]
    ELSE IF phrase \in {"comfortable single"}
         THEN [ok |-> TRUE, value |-> "comfortable_single", income |-> -1]
    ELSE IF phrase \in {"comfortable couple"}
         THEN [ok |-> TRUE, value |-> "comfortable_couple", income |-> -1]
    ELSE IF phrase \in {"custom", "my own", "specific"}
         THEN [ok |-> TRUE, value |-> "custom", income |-> -1]
    ELSE [ok |-> TRUE, value |-> interp, income |-> -1]

\* raw is what the Language Inference Service answered:
\*   [json |-> FALSE]                                 not a JSON object
\*   [json |-> TRUE, variable, t, ...]                {'variable': .., 'value': ..}
\* with t = "null" | "num" (n) | "text" (s) | "bool" (b) | "name" (s) |
\*          "phrase" (s, amount, interp)
\* The result has ok = TRUE exactly when chat_fn's test
\* extraction.get("variable") and extraction.get("value") is not None passes.
extract_variable_from_response(missing_marker, raw) ==
    LET expected_var == var_map(missing_marker)
    IN  IF ~raw.json THEN NoExtraction
        ELSE IF raw.variable # expected_var THEN NoExtraction
        ELSE IF raw.t = "null" THEN NoExtraction
        ELSE IF raw.t = "num" THEN [ok |-> TRUE, value |-> raw.n, income |-> -1]
        ELSE IF raw.t = "text" THEN ConvertNumericText(expected_var, raw.s)
        ELSE IF raw.t = "bool"
             THEN [ok |-> TRUE, value |-> IF raw.b THEN TrueV ELSE FalseV, income |-> -1]
        ELSE IF raw.t = "name" THEN [ok |-> TRUE, value |-> raw.s, income |-> -1]
        ELSE IF expected_var \in boolean_vars
             THEN [ok |-> TRUE, value |-> ConvertBooleanText(raw.s, raw.interp), income |-> -1]
        ELSE ConvertOptionText(raw.s, raw.amount, raw.interp)

-----------------------------------------------------------------------------
(* backend/helper.py update_calculated_values *)

\* the fallback when no fund row is found: balance * (1 + net/100) ** years
FallbackBalance(d) ==
    GrowYears(d["current_balance"], INVESTMENT_RETURN - INFLATION_RATE,
              d["retirement_age"] - d["current_age"])

UpdateIncomeNetOfSuper(d) ==
    IF GetNum(d, "current_income") # 0 /\ GetStr(d, "super_included") # NoneV
    THEN Put(d, "income_net_of_super",
             calculate_income_net_of_super(d["current_income"], d["super_included"],
                                           EMPLOYER_CONTRIBUTION_RATE))
    ELSE d

\* after_tax_income is computed from the gross income with super_included left
\* at its default False
UpdateAfterTaxIncome(d) ==
    IF GetNum(d, "current_income") # 0 /\ GetNum(d, "current_age") # 0
    THEN Put(d, "after_tax_income",
             calculate_after_tax_income(d["current_income"], d["current_age"], FalseV,
                                        EMPLOYER_CONTRIBUTION_RATE))
    ELSE d

UpdateRetirementBalance(d) ==
    IF /\ GetNum(d, "current_age") # 0
       /\ GetNum(d, "retirement_age") # 0
       /\ GetNum(d, "current_balance") # 0
       /\ GetNum(d, "income_net_of_super") # 0
       /\ TruthyStr(GetStr(d, "current_fund"))
    THEN LET matched_fund == match_fund_name(d["current_fund"])
             row == find_applicable_funds(matched_fund, d["current_age"])
         IN  Put(d, "retirement_balance",
                 IF matched_fund # NoneV /\ row # NoRow
                 THEN project_super_balance(d["current_age"], d["retirement_age"],
                                            d["current_balance"], d["income_net_of_super"],
                                            WAGE_GROWTH, EMPLOYER_CONTRIBUTION_RATE,
                                            INVESTMENT_RETURN, INFLATION_RATE, row)
                 ELSE FallbackBalance(d))
    ELSE d

\* the annual income the drawdown of update_calculated_values uses (0: none)
DerivedAnnualIncome(d) ==
    LET option == GetStr(d, "retirement_income_option")
    IN  IF option = "same_as_current" /\ GetNum(d, "after_tax_income") # 0
        THEN d["after_tax_income"]
        ELSE IF option \in AsfaOptions THEN get_asfa_standards(option)
        ELSE IF GetNum(d, "retirement_income") > 0 THEN d["retirement_income"]
        ELSE 0

UpdateDrawdownAge(d) ==
    IF /\ GetNum(d, "retirement_balance") # 0
       /\ GetNum(d, "retirement_age") # 0
       /\ (TruthyStr(GetStr(d, "retirement_income_option")) \/ GetNum(d, "retirement_income") # 0)
       /\ DerivedAnnualIncome(d) > 0
    THEN Put(d, "retirement_drawdown_age",
             calculate_retirement_drawdown(d["retirement_balance"], d["retirement_age"],
                                           DerivedAnnualIncome(d),
                                           RETIREMENT_INVESTMENT_RETURN, INFLATION_RATE))
    ELSE d

\* a recomputation that keeps a retirement balance once it has one
UpdateCalculatedValuesOnce(d) ==
    LET d1 == UpdateAfterTaxIncome(UpdateIncomeNetOfSuper(d))
    IN  UpdateDrawdownAge(IF Has(d1, "retirement_balance") THEN d1
                          ELSE UpdateRetirementBalance(d1))

update_calculated_values(d) ==
    UpdateDrawdownAge(UpdateRetirementBalance(UpdateAfterTaxIncome(UpdateIncomeNetOfSuper(d))))

-----------------------------------------------------------------------------
(* Missing-variable lists *)

Opt(cond, x) == IF cond THEN << x >> ELSE << >>

\* a test that takes any retirement age held for a present one
RetirementAgeMissingWhenUnset(d) == GetNum(d, "retirement_age") = 0

RetirementAgeMissing(d) ==
    GetNum(d, "retirement_age") = 0 \/ GetNum(d, "retirement_age") <= GetNum(d, "current_age")

SuperIncludedMissing(d) ==
    GetNum(d, "current_income") > 0 /\ GetStr(d, "super_included") = NoneV

\* backend/main.py process_query: the list built for the resolved intent
MissingVars(intent, d) ==
    CASE intent = "project_balance" ->
            Opt(GetNum(d, "current_age") = 0, "age")
            \o Opt(~TruthyStr(GetStr(d, "current_fund")), "current fund")
            \o Opt(GetNum(d, "current_balance") = 0, "super balance")
            \o Opt(RetirementAgeMissing(d), "desired retirement age")
            \o Opt(GetNum(d, "current_income") = 0, "current income")
            \o Opt(SuperIncludedMissing(d), "super_included")
      [] intent = "find_cheapest" ->
            Opt(GetNum(d, "current_age") = 0, "age")
            \o Opt(GetNum(d, "current_balance") = 0, "super balance")
      [] intent = "compare_fees_nominated" ->
            Opt(GetNum(d, "current_age") = 0, "age")
            \o Opt(~TruthyStr(GetStr(d, "current_fund")), "current fund")
            \o Opt(GetNum(d, "current_balance") = 0, "super balance")
            \o Opt(~TruthyStr(GetStr(d, "nominated_fund")), "nominated fund")
      [] intent = "compare_fees_all" ->
            Opt(GetNum(d, "current_age") = 0, "age")
            \o Opt(~TruthyStr(GetStr(d, "current_fund")), "current fund")
            \o Opt(GetNum(d, "current_balance") = 0, "super balance")
      [] intent = "compare_balance_projection" ->
            Opt(GetNum(d, "current_age") = 0, "age")
            \o Opt(~TruthyStr(GetStr(d, "current_fund")), "current fund")
            \o Opt(~TruthyStr(GetStr(d, "nominated_fund")), "nominated fund")
            \o Opt(GetNum(d, "current_balance") = 0, "super balance")
            \o Opt(RetirementAgeMissing(d), "desired retirement age")
            \o Opt(GetNum(d, "current_income") = 0, "current income")
            \o Opt(SuperIncludedMissing(d), "super_included")
      [] intent = "retirement_outcome" ->
            Opt(GetNum(d, "current_age") = 0, "age")
            \o Opt(RetirementAgeMissing(d), "desired retirement age")
            \o (IF GetNum(d, "retirement_balance") = 0
                THEN Opt(GetNum(d, "current_balance") = 0, "super balance")
                     \o Opt(~TruthyStr(GetStr(d, "current_fund")), "current fund")
                     \o Opt(GetNum(d, "current_income") = 0, "current income")
                     \o Opt(SuperIncludedMissing(d), "super_included")
                ELSE << >>)
            \o Opt(~TruthyStr(GetStr(d, "retirement_income_option"))
                   /\ ~(GetNum(d, "retirement_income") > 0), "retirement_income_option")
      [] OTHER -> << >>

\* app.py chat_fn: the list built after an answer was stored
ChatMissingVars(d) ==
    Opt(GetNum(d, "current_age") <= 0, "age")
    \o Opt(GetNum(d, "current_balance") <= 0, "super balance")
    \o Opt(GetStr(d, "intent") # "find_cheapest" /\ ~TruthyStr(GetStr(d, "current_fund")),
           "current fund")
    \o Opt(GetStr(d, "intent") = "compare_fees_nominated"
           /\ ~TruthyStr(GetStr(d, "nominated_fund")), "nominated fund")
    \o (IF GetStr(d, "intent") \in {"project_balance", "compare_balance_projection"}
        THEN Opt(GetNum(d, "retirement_age") <= GetNum(d, "current_age"),
                 "desired retirement age")
             \o Opt(GetNum(d, "current_income") <= 0, "current income")
        ELSE << >>)
    \o Opt(SuperIncludedMissing(d), "super_included")

-----------------------------------------------------------------------------
(* backend/main.py: the intent handlers.  Each takes the context built by   *)
(* process_query, whose entries are those of state["data"] (a number that   *)
(* is 0 reads as None), and yields what it did:                             *)
(*   kind      "computed"  an answer was calculated                         *)
(*             "short"     a message returned before any calculation        *)
(*             "error"     an exception was raised (a None in arithmetic)   *)
(*   handler   the handler that ran                                         *)
(*   value     the figure the answer reports                                *)
(*   suggested what the handler wrote to context['data']                    *)
(*             ['suggested_next_intent'] (its local context dict)           *)

INTENT_CONNECTIONS ==
    [project_balance |-> "retirement_outcome",
     compare_fees_nominated |-> "compare_balance_projection",
     compare_fees_all |-> "find_cheapest",
     find_cheapest |-> "compare_fees_nominated",
     compare_balance_projection |-> "retirement_outcome",
     retirement_outcome |-> "update_variable"]

get_next_intent_info(current_intent) ==
    IF current_intent \in DOMAIN INTENT_CONNECTIONS
    THEN INTENT_CONNECTIONS[current_intent]
    ELSE "unknown"

Computed(handler, value) ==
    [kind |-> "computed", handler |-> handler, value |-> value,
     suggested |-> get_next_intent_info(handler)]

Short(handler) ==
    [kind |-> "short", handler |-> handler, value |-> 0, suggested |-> NoneV]

Error(handler) ==
    [kind |-> "error", handler |-> handler, value |-> 0, suggested |-> NoneV]

NoHandler == [kind |-> "none", handler |-> NoneV, value |-> 0, suggested |-> NoneV]

\* the projection the handlers make for one fund row
HandlerProjection(d, row) ==
    project_super_balance(d["current_age"], d["retirement_age"], d["current_balance"],
                          calculate_income_net_of_super(d["current_income"],
                                                        GetStr(d, "super_included"),
                                                        EMPLOYER_CONTRIBUTION_RATE),
                          WAGE_GROWTH, EMPLOYER_CONTRIBUTION_RATE,
                          INVESTMENT_RETURN, INFLATION_RATE, row)

ProjectionInputsPresent(d) ==
    /\ GetNum(d, "current_age") # 0
    /\ GetNum(d, "retirement_age") # 0
    /\ GetNum(d, "current_balance") # 0
    /\ GetNum(d, "current_income") # 0

process_compare_fees_nominated(d) ==
    LET h == "compare_fees_nominated"
        current_fund_match == match_fund_name(GetStr(d, "current_fund"))
        nominated_fund_match == match_fund_name(GetStr(d, "nominated_fund"))
        current_row == find_applicable_funds(current_fund_match, GetNum(d, "current_age"))
        nominated_row == find_applicable_funds(nominated_fund_match, GetNum(d, "current_age"))
    IN  IF current_fund_match = NoneV \/ nominated_fund_match = NoneV THEN Short(h)
        ELSE IF GetNum(d, "current_age") = 0 THEN Error(h)
        ELSE IF current_row = NoRow \/ nominated_row = NoRow THEN Short(h)
        ELSE IF GetNum(d, "current_balance") = 0 THEN Error(h)
        ELSE Computed(h, compute_fee_breakdown(current_row, d["current_balance"])
                         - compute_fee_breakdown(nominated_row, d["current_balance"]))

\* the funds find_applicable_funds(df, age) yields on the whole table
AgeFunds == {f \in FundNames : FundTable[f].ApproachType = "AGE"}

CheapestFee(balance) ==
    LET fees == {compute_fee_breakdown(FundTable[f], balance) : f \in AgeFunds}
    IN  CHOOSE x \in fees : \A y \in fees : x <= y

process_compare_fees_all(d) ==
    LET h == "compare_fees_all"
    IN  IF GetNum(d, "current_age") = 0 THEN Error(h)
        ELSE IF AgeFunds = {} THEN Short(h)
        ELSE IF GetNum(d, "current_balance") = 0 THEN Error(h)
        ELSE Computed(h, CheapestFee(d["current_balance"]))

process_find_cheapest(d) ==
    LET h == "find_cheapest"
    IN  IF GetNum(d, "current_age") = 0 THEN Error(h)
        ELSE IF AgeFunds = {} THEN Short(h)
        ELSE IF GetNum(d, "current_balance") = 0 THEN Error(h)
        ELSE Computed(h, CheapestFee(d["current_balance"]))

process_project_balance(d) ==
    LET h == "project_balance"
        matched_fund == match_fund_name(GetStr(d, "current_fund"))
        row == find_applicable_funds(matched_fund, GetNum(d, "current_age"))
    IN  IF matched_fund = NoneV THEN Short(h)
        ELSE IF GetNum(d, "current_age") = 0 THEN Error(h)
        ELSE IF row = NoRow THEN Short(h)
        ELSE IF ~ProjectionInputsPresent(d) THEN Error(h)
        ELSE Computed(h, HandlerProjection(d, row))

process_compare_balance_projection(d) ==
    LET h == "compare_balance_projection"
        matched_current_fund == match_fund_name(GetStr(d, "current_fund"))
        matched_nominated_fund == match_fund_name(GetStr(d, "nominated_fund"))
        current_row == find_applicable_funds(matched_current_fund, GetNum(d, "current_age"))
        nominated_row == find_applicable_funds(matched_nominated_fund, GetNum(d, "current_age"))
    IN  IF GetNum(d, "current_income") = 0 /\ GetStr(d, "super_included") = TrueV THEN Error(h)
        ELSE IF matched_current_fund = NoneV \/ matched_nominated_fund = NoneV THEN Short(h)
        ELSE IF GetNum(d, "current_age") = 0 THEN Error(h)
        ELSE IF current_row = NoRow \/ nominated_row = NoRow THEN Short(h)
        ELSE IF ~ProjectionInputsPresent(d) THEN Error(h)
        ELSE Computed(h, HandlerProjection(d, nominated_row) - HandlerProjection(d, current_row))

\* the option process_retirement_outcome works with: same_as_current is assumed
\* when none is held and an income is
OutcomeOption(d) ==
    IF GetStr(d, "retirement_income_option") = NoneV /\ GetNum(d, "current_income") > 0
    THEN "same_as_current"
    ELSE GetStr(d, "retirement_income_option")

\* annual_retirement_income of process_retirement_outcome; 0 stands for the two
\* "Could not determine your desired retirement income" returns
OutcomeAnnualIncome(d) ==
    LET option == OutcomeOption(d)
    IN  IF option = "same_as_current"
        THEN calculate_after_tax_income(d["current_income"], d["retirement_age"], FalseV,
                                        EMPLOYER_CONTRIBUTION_RATE)
        ELSE IF option \in AsfaOptions THEN get_asfa_standards(option)
        ELSE IF GetNum(d, "retirement_income") > 0 THEN d["retirement_income"]
        ELSE 0

process_retirement_outcome(d) ==
    LET h == "retirement_outcome"
        option == OutcomeOption(d)
        matched_fund == match_fund_name(GetStr(d, "current_fund"))
        row == find_applicable_funds(matched_fund, GetNum(d, "current_age"))
        retirement_balance ==
            IF GetNum(d, "retirement_balance") # 0 THEN d["retirement_balance"]
            ELSE HandlerProjection(d, row)
    IN  IF GetStr(d, "retirement_income_option") = NoneV /\ GetNum(d, "current_income") = 0
        THEN Error(h)
        ELSE IF GetNum(d, "retirement_balance") = 0 /\ matched_fund = NoneV THEN Short(h)
        ELSE IF GetNum(d, "retirement_balance") = 0 /\ GetNum(d, "current_age") = 0 THEN Error(h)
        ELSE IF GetNum(d, "retirement_balance") = 0 /\ row = NoRow THEN Short(h)
        ELSE IF GetNum(d, "retirement_balance") = 0 /\ ~ProjectionInputsPresent(d) THEN Error(h)
        ELSE IF option = "same_as_current"
                /\ (GetNum(d, "current_income") = 0 \/ GetNum(d, "retirement_age") = 0)
             THEN Error(h)
        ELSE IF OutcomeAnnualIncome(d) = 0 /\ option # "same_as_current" /\ option \notin AsfaOptions
             THEN Short(h)
        ELSE IF GetNum(d, "retirement_age") = 0 THEN Error(h)
        ELSE Computed(h, calculate_retirement_drawdown(retirement_balance, d["retirement_age"],
                                                       OutcomeAnnualIncome(d),
                                                       RETIREMENT_INVESTMENT_RETURN,
                                                       INFLATION_RATE))

process_default_comparison(d) ==
    LET h == "default_comparison"
    IN  IF GetNum(d, "current_age") = 0 \/ GetNum(d, "current_balance") = 0 THEN Error(h)
        ELSE [kind |-> "computed", handler |-> h,
              value |-> CheapestFee(d["current_balance"]), suggested |-> NoneV]

RunHandler(intent, d) ==
    CASE intent = "compare_fees_nominated" -> process_compare_fees_nominated(d)
      [] intent = "compare_fees_all" -> process_compare_fees_all(d)
      [] intent = "find_cheapest" -> process_find_cheapest(d)
      [] intent = "project_balance" -> process_project_balance(d)
      [] intent = "compare_balance_projection" -> process_compare_balance_projection(d)
      [] intent = "retirement_outcome" -> process_retirement_outcome(d)

Calculations == DOMAIN INTENT_CONNECTIONS

\* original_intent or previous_intent of the context; the context is then merged
\* with previous_data, which is state["data"] itself, and the handler of the
\* original intent is called without any check of its inputs
process_update_variable(d) ==
    LET original_intent ==
            IF TruthyStr(GetStr(d, "original_intent")) THEN d["original_intent"]
            ELSE GetStr(d, "previous_intent")
    IN  IF original_intent \in Calculations THEN RunHandler(original_intent, d)
        ELSE Short("update_variable")

process_intent(intent, d) ==
    IF intent \in Calculations THEN RunHandler(intent, d)
    ELSE IF intent = "update_variable" THEN process_update_variable(d)
    ELSE process_default_comparison(d)

-----------------------------------------------------------------------------
(* backend/main.py process_query *)

\* re.search(r'\d+', text): the text from its first digit on, then its digits
RECURSIVE DropToDigit(_)
DropToDigit(s) ==
    IF s = << >> THEN << >>
    ELSE IF IsDigit(Head(s)) THEN s
    ELSE DropToDigit(Tail(s))

RECURSIVE DigitRun(_, _)
DigitRun(s, acc) ==
    IF s = << >> \/ ~IsDigit(Head(s)) THEN acc
    ELSE DigitRun(Tail(s), acc * 10 + DigitVal(Head(s)))

HasDigit(s) == DropToDigit(s) # << >>

\* int(re.search(r'\d+', text).group())
FirstInt(s) == DigitRun(DropToDigit(s), 0)

\* helper.handle_next_intent_transition and lines 981-994: acting on the
\* suggestion held in state["data"]
handle_next_intent_transition(d) ==
    LET next_intent == d["suggested_next_intent"]
        previous_intent ==
            IF TruthyStr(GetStr(d, "intent")) /\ d["intent"] # "unknown" THEN d["intent"]
            ELSE GetStr(d, "previous_intent")
        d1 == Put(d, "intent", next_intent)
        d2 == IF TruthyStr(previous_intent) THEN Put(d1, "previous_intent", previous_intent)
              ELSE d1
        d3 == Del(d2, "suggested_next_intent")
    IN  IF next_intent = "update_variable" /\ ~TruthyStr(GetStr(d3, "original_intent"))
        THEN Put(d3, "original_intent", GetStr(d3, "previous_intent"))
        ELSE d3

\* state["data"].get("intent", "unknown")
StoredIntent(d) == IF Has(d, "intent") THEN d["intent"] ELSE "unknown"

\* lines 1007-1015: a numeric reply right after a prompt about the current income
\* or the retirement age overrides the extraction.  ov.kind says which phrase
\* the previous response holds, ov.text is the query.
ApplyOverride(ex, ov) ==
    IF ov.kind = "current_income"
    THEN Put(Put(ex, "intent", "unknown"), "current_income", parse_numeric_with_suffix(ov.text))
    ELSE IF ov.kind = "retirement_age"
    THEN Put(Put(ex, "intent", "unknown"), "retirement_age", FirstInt(ov.text))
    ELSE ex

\* a resolution that takes the classification as it comes
ResolveIntentAsClassified(d, extracted_intent, affirm) ==
    [intent |-> extracted_intent, data |-> d]

\* lines 1025-1057: the intent of the turn, with the state changes made on the way
ResolveIntent(d, extracted_intent, affirm) ==
    LET r1 ==
            IF extracted_intent = "unknown"
            THEN IF TruthyStr(GetStr(d, "suggested_next_intent"))
                 THEN IF affirm
                      THEN [intent |-> d["suggested_next_intent"],
                            data |-> Del(Put(d, "previous_intent", StoredIntent(d)),
                                         "suggested_next_intent")]
                      ELSE [intent |-> StoredIntent(d), data |-> d]
                 ELSE IF TruthyStr(GetStr(d, "intent")) /\ d["intent"] # "unknown"
                      THEN [intent |-> d["intent"], data |-> d]
                      ELSE [intent |-> extracted_intent, data |-> d]
            ELSE [intent |-> extracted_intent, data |-> d]
    IN  IF r1.intent = "unknown" /\ TruthyStr(GetStr(r1.data, "intent"))
        THEN [intent |-> r1.data["intent"], data |-> r1.data]
        ELSE r1

\* lines 1062-1084: previous_intent and intent are saved
SaveIntent(d, intent) ==
    LET current_state_intent == GetStr(d, "intent")
    IN  Put(IF TruthyStr(current_state_intent) /\ current_state_intent # "unknown"
            THEN Put(d, "previous_intent", current_state_intent)
            ELSE d,
            "intent", intent)

\* lines 1107-1112: an update_variable extraction changes three keys only
UpdateVariableSlots(d, ex) ==
    LET d1 == IF GetNum(ex, "retirement_age") # 0
              THEN Put(d, "retirement_age", ex["retirement_age"]) ELSE d
        d2 == IF GetNum(ex, "retirement_income") # 0
              THEN Put(d1, "retirement_income", ex["retirement_income"]) ELSE d1
    IN  IF GetStr(ex, "current_fund") # NoneV
        THEN Put(d2, "current_fund", ex["current_fund"]) ELSE d2

\* lines 1136-1152: how the reply is read while a variable is awaited
IntMarkers == {"desired retirement age", "age", "current_age", "retirement_age",
               "retirement_drawdown_age"}
MoneyMarkers == {"current income", "current_income", "retirement_income",
                 "income_net_of_super", "after_tax_income",
                 "super balance", "current_balance", "retirement_balance"}

\* re.search(r'[\d.]+[km]?', text) on a text that ends with the number
AwaitedSlot(d, mv, text) ==
    IF mv \in IntMarkers /\ HasDigit(text) THEN Put(d, var_map(mv), FirstInt(text))
    ELSE IF mv \in MoneyMarkers /\ HasDigit(text)
         THEN Put(d, var_map(mv), parse_numeric_with_suffix(DropToDigit(text)))
    ELSE d

StoreFund(d, ex, key) ==
    IF TruthyStr(GetStr(ex, key))
    THEN Put(d, key, IF match_fund_name(ex[key]) # NoneV THEN match_fund_name(ex[key])
                     ELSE ex[key])
    ELSE d

NumericKeys == <<"current_age", "current_balance", "current_income", "retirement_age">>

RECURSIVE StoreNumerics(_, _, _)
StoreNumerics(d, ex, i) ==
    IF i > Len(NumericKeys) THEN d
    ELSE StoreNumerics(IF Has(ex, NumericKeys[i]) THEN Put(d, NumericKeys[i], ex[NumericKeys[i]])
                       ELSE d,
                       ex, i + 1)

\* an extraction that stores its numeric values whatever the session holds
InitialSlotsUnguarded(d, ex) ==
    LET d1 == StoreFund(StoreFund(d, ex, "current_fund"), ex, "nominated_fund")
        d2 == IF GetStr(ex, "super_included") # NoneV
              THEN Put(d1, "super_included", ex["super_included"]) ELSE d1
        d3 == IF Has(ex, "retirement_income")
              THEN Put(d2, "retirement_income", ex["retirement_income"]) ELSE d2
    IN  StoreNumerics(d3, ex, 1)

\* lines 1158-1194: the extraction of a turn that awaits nothing
InitialSlots(d, ex) ==
    LET d1 == StoreFund(StoreFund(d, ex, "current_fund"), ex, "nominated_fund")
        d2 == IF GetStr(ex, "super_included") # NoneV
              THEN Put(d1, "super_included", ex["super_included"]) ELSE d1
        d3 == IF Has(ex, "retirement_income")
              THEN Put(d2, "retirement_income", ex["retirement_income"]) ELSE d2
    IN  IF \A i \in 1..Len(NumericKeys) : GetNum(d3, NumericKeys[i]) = 0
        THEN StoreNumerics(d3, ex, 1)
        ELSE d3

UpdateSlots(d, mv, ex, text) ==
    IF GetStr(ex, "intent") = "update_variable" THEN UpdateVariableSlots(d, ex)
    ELSE IF mv # NoneV THEN AwaitedSlot(d, mv, text)
    ELSE InitialSlots(d, ex)

\* lines 1329-1351
Canonical(first_missing) == var_map(first_missing)

\* process_query on a non-empty query.  d and mv are state["data"] and
\* state["missing_var"]; ex is what extract_intent_variables returns for the
\* query, ov the numeric override, affirm is_affirmative_response(query).
\* Yields the new data and missing_var and what was replied.
process_query(d, mv, ex, ov, affirm) ==
    LET d1 == IF TruthyStr(GetStr(d, "suggested_next_intent")) /\ affirm
              THEN handle_next_intent_transition(d) ELSE d
        extracted == IF mv = NoneV THEN ApplyOverride(ex, ov)
                     ELSE ("intent" :> StoredIntent(d1))
        r == ResolveIntent(d1, IF Has(extracted, "intent") THEN extracted["intent"] ELSE "unknown",
                           affirm)
        intent == r.intent
        d2 == SaveIntent(r.data, intent)
        d3 == update_calculated_values(UpdateSlots(d2, mv, extracted, ov.text))
        missing_vars == MissingVars(intent, d3)
    IN  IF missing_vars # << >>
        THEN [data |-> IF mv # NoneV THEN Put(d3, "last_var", mv) ELSE d3,
              missing_var |-> Canonical(missing_vars[1]),
              reply |-> "question", intent |-> intent, outcome |-> NoHandler]
        ELSE [data |-> d3, missing_var |-> mv,
              reply |-> "answer", intent |-> intent, outcome |-> process_intent(intent, d3)]

-----------------------------------------------------------------------------
(* Inputs: what the Language Inference Service and the user can supply *)

Intents == {"unknown", "project_balance", "find_cheapest", "compare_fees_all",
            "compare_fees_nominated", "compare_balance_projection",
            "retirement_outcome", "update_variable", "calculate_age_pension",
            "affirmative_response"}

\* helper.extract_intent_variables lines 348-359: the keys a parsed answer
\* always has
default_data(extra) ==
    extra @@ [intent |-> "unknown", current_fund |-> NoneV, nominated_fund |-> NoneV,
              current_age |-> 0, current_balance |-> 0, current_income |-> 0,
              retirement_age |-> 0, super_included |-> NoneV, income_net_of_super |-> 0]

\* what a query can mention besides its intent
Mentions ==
    { << >>,
      [current_age |-> 60, current_balance |-> 100000, current_income |-> 90000,
       retirement_age |-> 61, current_fund |-> "ART", super_included |-> TrueV],
      [current_age |-> 60, current_balance |-> 100000],
      [retirement_age |-> 50],
      [current_fund |-> ""],
      [current_fund |-> "zzz"],
      [retirement_income |-> 40000, retirement_income_option |-> "custom"] }

\* extract_intent_variables: a parsed answer of the service or, for an
\* affirmative query (which mentions nothing) after a suggestion, the dict of
\* lines 183-226 that holds the intent alone
Extractions(affirm) ==
    IF affirm
    THEN {default_data(("intent" :> i)) : i \in Intents}
         \cup {("intent" :> i) : i \in {"retirement_outcome", "update_variable",
                                       "affirmative_response"}}
    ELSE {default_data(("intent" :> i) @@ m) : i \in Intents, m \in Mentions}

NoOverride == [kind |-> "none", text |-> << >>]

Overrides ==
    { NoOverride,
      [kind |-> "current_income", text |-> <<"9", "0", "k">>],
      [kind |-> "current_income", text |-> <<"a", " ", "9", "0">>],
      [kind |-> "retirement_age", text |-> <<"6", "1">>] }

\* the inputs of one call of process_query from chat_fn: the override applies
\* to a bare numeric reply, which mentions nothing else
QueryInputs ==
    UNION {{[ex |-> e, ov |-> NoOverride, affirm |-> a] : e \in Extractions(a)} :
               a \in BOOLEAN}
    \cup {[ex |-> default_data(("intent" :> i)), ov |-> o, affirm |-> FALSE] :
              i \in Intents, o \in Overrides}

\* the reply to a question is short: it is classified among fewer intents
AnswerInputs ==
    {[ex |-> default_data(("intent" :> i)), ov |-> o, affirm |-> FALSE] :
         i \in {"unknown", "update_variable", "retirement_outcome"}, o \in Overrides}

NotJson == [json |-> FALSE]

Raw(variable, t) == [json |-> TRUE, variable |-> variable, t |-> t]

RawNum(variable, n) == Raw(variable, "num") @@ [n |-> n]

RawText(variable, s) == Raw(variable, "text") @@ [s |-> s]

RawName(variable, s) == Raw(variable, "name") @@ [s |-> s]

RawPhrase(variable, s, amount, interp) ==
    Raw(variable, "phrase") @@ [s |-> s, amount |-> amount, interp |-> interp]

\* the answers of the service to the extraction prompt for expected_var
RawAnswers(expected_var) ==
    { NotJson, Raw("other", "null"), Raw(expected_var, "null") }
    \cup
    CASE expected_var = "current_age" ->
            { RawNum(expected_var, 60), RawNum(expected_var, 5),
              RawText(expected_var, <<"6", "0">>), RawText(expected_var, <<"a", "b">>) }
      [] expected_var = "retirement_age" ->
            { RawNum(expected_var, 61), RawNum(expected_var, 50),
              RawText(expected_var, <<"6", "1", ".", "5">>) }
      [] expected_var = "current_balance" ->
            { RawNum(expected_var, 100000),
              RawText(expected_var, <<"$", "1", "0", "0", "k">>),
              RawText(expected_var, <<"-", "5", "0", "0">>) }
      [] expected_var = "current_income" ->
            { RawNum(expected_var, 90000),
              RawText(expected_var, <<"9", "0", ",", "0", "0", "0">>),
              RawText(expected_var, <<"l", "o", "t", "s">>) }
      [] expected_var \in fund_vars ->
            { RawName(expected_var, "ART"), RawName(expected_var, "art"),
              RawName(expected_var, "zzz") }
      [] expected_var = "super_included" ->
            { Raw(expected_var, "bool") @@ [b |-> FALSE],
              RawPhrase(expected_var, "yes", << >>, NoneV),
              RawPhrase(expected_var, "i think so", << >>, "included") }
      [] expected_var = "retirement_income_option" ->
            { RawPhrase(expected_var, "same", << >>, NoneV),
              RawPhrase(expected_var, "modest single", << >>, NoneV),
              RawPhrase(expected_var, "$40k", <<"4", "0", "k">>, NoneV),
              RawPhrase(expected_var, "custom", << >>, NoneV) }
      [] OTHER -> {}

-----------------------------------------------------------------------------
(* app.py chat_fn *)

StringKeys == {"current_fund", "nominated_fund", "retirement_income_option"}

NumberKeys == {"current_age", "current_balance", "current_income", "retirement_age",
               "income_net_of_super", "retirement_income"}

\* lines 761-765: the value of key is stored when it is not None and not a
\* numeric zero (False is a numeric zero)
Mentioned(ex, key) ==
    /\ Has(ex, key)
    /\ \/ key \in NumberKeys /\ ex[key] # 0
       \/ key \in StringKeys /\ ex[key] # NoneV
       \/ key = "super_included" /\ ex[key] = TrueV

RECURSIVE MergeMentioned(_, _, _)
MergeMentioned(d, ex, keys) ==
    IF keys = {} THEN d
    ELSE LET k == CHOOSE x \in keys : TRUE
         IN  MergeMentioned(IF Mentioned(ex, k) THEN Put(d, k, ex[k]) ELSE d, ex, keys \ {k})

\* lines 749-765: an utterance classified update_variable
TrackOriginalIntent(d) ==
    IF ~Has(d, "previous_intent") \/ GetStr(d, "previous_intent") = "update_variable"
    THEN IF TruthyStr(GetStr(d, "intent")) /\ d["intent"] # "update_variable"
         THEN Put(d, "original_intent", d["intent"]) ELSE d
    ELSE IF TruthyStr(GetStr(d, "previous_intent"))
         THEN Put(d, "original_intent", d["previous_intent"]) ELSE d

ChatUpdateVariable(d, ex) ==
    MergeMentioned(Put(TrackOriginalIntent(d), "intent", ex["intent"]), ex,
                   StringKeys \cup NumberKeys \cup {"super_included"})

\* lines 619-643: an accepted answer is stored as extracted
StoreAnswer(d, var_marker, extraction) ==
    LET var_key == var_map(var_marker)
        raw_value == IF var_key \in fund_vars /\ match_fund_name(extraction.value) # NoneV
                     THEN match_fund_name(extraction.value)
                     ELSE extraction.value
        d1 == Put(Put(d, "last_var", var_marker), var_key, raw_value)
        d2 == IF extraction.income >= 0 THEN Put(d1, "retirement_income", extraction.income)
              ELSE d1
    IN  update_calculated_values(d2)

\* which of the refusals of lines 434-473 the answer of the service runs
\* into: "empty" (no JSON object, or a null value), "mismatch" (another
\* variable is named), "conversion" (a text that float() rejects), else "none"
ExtractionFailure(missing_marker, raw) ==
    IF ~raw.json THEN "empty"
    ELSE IF raw.variable # var_map(missing_marker) THEN "mismatch"
    ELSE IF raw.t = "null" THEN "empty"
    ELSE IF raw.t = "text" /\ var_map(missing_marker) \in numeric_vars
            /\ ~ConvertNumericText(var_map(missing_marker), raw.s).ok
         THEN "conversion"
    ELSE "none"

\* the record kept of a turn: the state it started from, what was understood
\* and what was replied
TurnRecord(op, d, mv, classified, affirm, r, accepted, failure) ==
    [op |-> op, classified |-> classified, affirm |-> affirm, reply |-> r.reply,
     intent |-> r.intent, outcome |-> r.outcome,
     intent_before |-> GetStr(d, "intent"),
     previous_before |-> GetStr(d, "previous_intent"),
     suggested_before |-> GetStr(d, "suggested_next_intent"),
     awaiting_before |-> mv, accepted |-> accepted, failure |-> failure]

NoReply(reply) == [reply |-> reply, intent |-> NoneV, outcome |-> NoHandler]

Init ==
    /\ data = [super_included |-> NoneV]
    /\ missing_var = NoneV
    /\ last = TurnRecord("init", data, NoneV, NoneV, FALSE, NoReply("none"), FALSE, "none")
    /\ turn = 0
    /\ llm = NoCall
    /\ calc = NoCalc

\* chat_fn on a message received while no variable is awaited (lines 743-794)
IdleTurn ==
    /\ turn < MaxTurns
    /\ missing_var = NoneV
    /\ \E q \in QueryInputs :
         LET d0 == IF GetStr(q.ex, "intent") = "update_variable"
                   THEN ChatUpdateVariable(data, q.ex) ELSE data
             r == process_query(d0, NoneV, q.ex, q.ov, q.affirm)
         IN  /\ data' = r.data
             /\ missing_var' = r.missing_var
             /\ last' = TurnRecord("idle", data, NoneV, GetStr(q.ex, "intent"), q.affirm,
                                   r, FALSE, "none")
    /\ turn' = turn + 1
    /\ UNCHANGED <<llm, calc>>

\* a refusal that forgets the question it repeats
AwaitRefusedForgets ==
    /\ turn < MaxTurns
    /\ missing_var # NoneV
    /\ \E raw \in RawAnswers(var_map(missing_var)) :
         /\ ~extract_variable_from_response(missing_var, raw).ok
         /\ data' = data
         /\ missing_var' = NoneV
         /\ last' = TurnRecord("await", data, missing_var, NoneV, FALSE, NoReply("reask"),
                               FALSE, ExtractionFailure(missing_var, raw))
    /\ turn' = turn + 1
    /\ UNCHANGED <<llm, calc>>

\* chat_fn on a message received while missing_var is awaited (lines 585-741):
\* the answer is refused and the question repeated ...
AwaitRefused ==
    /\ turn < MaxTurns
    /\ missing_var # NoneV
    /\ \E raw \in RawAnswers(var_map(missing_var)) :
         /\ ~extract_variable_from_response(missing_var, raw).ok
         /\ data' = data
         /\ missing_var' = missing_var
         /\ last' = TurnRecord("await", data, missing_var, NoneV, FALSE, NoReply("reask"),
                               FALSE, ExtractionFailure(missing_var, raw))
    /\ turn' = turn + 1
    /\ UNCHANGED <<llm, calc>>

\* ... or stored, and the next variable of chat_fn's own list is asked ...
AwaitNextQuestion ==
    /\ turn < MaxTurns
    /\ missing_var # NoneV
    /\ \E raw \in RawAnswers(var_map(missing_var)) :
         LET extraction == extract_variable_from_response(missing_var, raw)
             d1 == StoreAnswer(data, missing_var, extraction)
         IN  /\ extraction.ok
             /\ ChatMissingVars(d1) # << >>
             /\ data' = d1
             /\ missing_var' = ChatMissingVars(d1)[1]
             /\ last' = TurnRecord("await", data, missing_var, NoneV, FALSE,
                                   NoReply("question"), TRUE,
                                   ExtractionFailure(missing_var, raw))
    /\ turn' = turn + 1
    /\ UNCHANGED <<llm, calc>>

\* ... or stored, and the complete query handed to process_query
AwaitComplete ==
    /\ turn < MaxTurns
    /\ missing_var # NoneV
    /\ \E raw \in RawAnswers(var_map(missing_var)), q \in AnswerInputs :
         LET extraction == extract_variable_from_response(missing_var, raw)
             d1 == StoreAnswer(data, missing_var, extraction)
             r == process_query(d1, NoneV, q.ex, q.ov, q.affirm)
         IN  /\ extraction.ok
             /\ ChatMissingVars(d1) = << >>
             /\ data' = r.data
             /\ missing_var' = r.missing_var
             /\ last' = TurnRecord("await", data, missing_var, q.ex["intent"], q.affirm,
                                   r, TRUE, ExtractionFailure(missing_var, raw))
    /\ turn' = turn + 1
    /\ UNCHANGED <<llm, calc>>

\* The service raises an exception during a turn.  chat_fn and process_query
\* change the state dict in place and hold no copy of it; whether the caller
\* keeps the dict as the abandoned turn left it is not decided in this
\* repository, so both outcomes are possible (kept).

\* chat_fn, Idle: the call of extract_intent_variables at line 748 raises
\* (helper.py 397-399) before anything is written
IdleExtractionRaises ==
    /\ turn < MaxTurns
    /\ missing_var = NoneV
    /\ data' = data
    /\ missing_var' = missing_var
    /\ last' = TurnRecord("idle", data, NoneV, NoneV, FALSE, NoReply("raised"), FALSE, "none")
    /\ turn' = turn + 1
    /\ UNCHANGED <<llm, calc>>

\* the queries taken for the turns that are abandoned: they mention nothing,
\* or a retirement age
FailingQueryInputs ==
    {q \in QueryInputs : /\ q.ex["intent"] \in {"update_variable", "project_balance"}
                         /\ ~q.affirm
                         /\ q.ov = NoOverride
                         /\ q.ex["current_age"] = 0
                         /\ q.ex["current_fund"] = NoneV
                         /\ GetNum(q.ex, "retirement_income") = 0}

\* chat_fn, Idle: the first extraction succeeds, the update_variable merge of
\* lines 749-765 is made, and the extraction of process_query (main.py 1004)
\* raises, after the transition of main.py 972-994
IdleQueryRaises ==
    /\ turn < MaxTurns
    /\ missing_var = NoneV
    /\ \E q \in FailingQueryInputs, kept \in BOOLEAN :
         LET d0 == IF GetStr(q.ex, "intent") = "update_variable"
                   THEN ChatUpdateVariable(data, q.ex) ELSE data
             d1 == IF TruthyStr(GetStr(d0, "suggested_next_intent")) /\ q.affirm
                   THEN handle_next_intent_transition(d0) ELSE d0
         IN  /\ data' = IF kept THEN d1 ELSE data
             /\ last' = TurnRecord("idle", data, NoneV, GetStr(q.ex, "intent"), q.affirm,
                                   NoReply("raised"), FALSE, "none")
    /\ missing_var' = missing_var
    /\ turn' = turn + 1
    /\ UNCHANGED <<llm, calc>>

\* chat_fn, awaiting a fund: the answer is accepted, last_var is written
\* (line 624) and match_fund_name (line 629, utils.py 146-187), which calls
\* the service with no handler, raises
AwaitFundMatchRaises ==
    /\ turn < MaxTurns
    /\ missing_var # NoneV
    /\ var_map(missing_var) \in fund_vars
    /\ \E raw \in RawAnswers(var_map(missing_var)), kept \in BOOLEAN :
         /\ extract_variable_from_response(missing_var, raw).ok
         /\ data' = IF kept THEN Put(data, "last_var", missing_var) ELSE data
         /\ last' = TurnRecord("await", data, missing_var, NoneV, FALSE, NoReply("raised"),
                               FALSE, ExtractionFailure(missing_var, raw))
    /\ missing_var' = missing_var
    /\ turn' = turn + 1
    /\ UNCHANGED <<llm, calc>>

Next ==
    \/ IdleTurn
    \/ AwaitRefused
    \/ AwaitNextQuestion
    \/ AwaitComplete
    \/ IdleExtractionRaises
    \/ IdleQueryRaises
    \/ AwaitFundMatchRaises

Spec == Init /\ [][Next]_vars

-----------------------------------------------------------------------------
(* backend/api.py process_chat: process_query is called on the state the   *)
(* client sends with the request; nothing is kept between two requests.    *)

\* session data a client can hold: a profile, the intent last answered and,
\* with it, the follow-up that answer suggested
ClientProfiles ==
    { [super_included |-> NoneV],
      update_calculated_values(
          [super_included |-> TrueV, current_age |-> 60, current_balance |-> 100000,
           current_income |-> 90000, retirement_age |-> 61, current_fund |-> "ART"]) }

ClientData ==
    ClientProfiles
    \cup {Put(p, "intent", i) : p \in ClientProfiles, i \in {"project_balance", "unknown"}}
    \cup {Put(Put(p, "intent", i), "suggested_next_intent", INTENT_CONNECTIONS[i]) :
              p \in ClientProfiles, i \in Calculations}

ClientStates ==
    {[data |-> d, missing_var |-> NoneV] : d \in ClientData}
    \cup {[data |-> d, missing_var |-> m] :
              d \in {x \in ClientData : GetStr(x, "intent") = "project_balance"},
              m \in {"current_age", "current_income"}}

\* the requests carry short queries, which mention no variable
ApiInputs ==
    UNION {{[ex |-> e, ov |-> NoOverride, affirm |-> a] :
                e \in {x \in Extractions(a) : Has(x, "current_age") =>
                           /\ x["current_age"] = 0
                           /\ x["current_fund"] = NoneV
                           /\ x["retirement_age"] = 0
                           /\ GetNum(x, "retirement_income") = 0}} : a \in BOOLEAN}

MaxRequests == 1

InitApi ==
    /\ data = << >>
    /\ missing_var = NoneV
    /\ last = TurnRecord("init", data, NoneV, NoneV, FALSE, NoReply("none"), FALSE, "none")
    /\ turn = 0
    /\ llm = NoCall
    /\ calc = NoCalc

ApiProcess ==
    /\ turn < MaxRequests
    /\ \E cs \in ClientStates, q \in ApiInputs :
         LET r == process_query(cs.data, cs.missing_var, q.ex, q.ov, q.affirm)
         IN  /\ data' = r.data
             /\ missing_var' = r.missing_var
             /\ last' = TurnRecord("api", cs.data, cs.missing_var, GetStr(q.ex, "intent"),
                                   q.affirm, r, FALSE, "none")
    /\ turn' = turn + 1
    /\ UNCHANGED <<llm, calc>>

NextApi == ApiProcess

SpecApi == InitApi /\ [][NextApi]_vars

-----------------------------------------------------------------------------
(* backend/main.py process_query called turn after turn on one state dict,  *)
(* which it changes in place, from the moment an answer has proposed a      *)
(* follow-up: the state holds the intent answered and the suggestion.       *)

MaxSessionTurns == 2

InitSession ==
    /\ \E cs \in ClientStates :
         /\ cs.missing_var = NoneV
         /\ TruthyStr(GetStr(cs.data, "suggested_next_intent"))
         /\ data = cs.data
    /\ missing_var = NoneV
    /\ last = TurnRecord("init", data, NoneV, NoneV, FALSE, NoReply("none"), FALSE, "none")
    /\ turn = 0
    /\ llm = NoCall
    /\ calc = NoCalc

SessionTurn ==
    /\ turn < MaxSessionTurns
    /\ \E q \in ApiInputs :
         LET r == process_query(data, missing_var, q.ex, q.ov, q.affirm)
         IN  /\ data' = r.data
             /\ missing_var' = r.missing_var
             /\ last' = TurnRecord("session", data, missing_var, GetStr(q.ex, "intent"),
                                   q.affirm, r, FALSE, "none")
    /\ turn' = turn + 1
    /\ UNCHANGED <<llm, calc>>

NextSession == SessionTurn

SpecSession == InitSession /\ [][NextSession]_vars

-----------------------------------------------------------------------------
(* One call of the Language Inference Service, for every way the service    *)
(* can fail during its attempts.                                            *)

InitAskLlm ==
    /\ data = << >>
    /\ missing_var = NoneV
    /\ last = TurnRecord("init", data, NoneV, NoneV, FALSE, NoReply("none"), FALSE, "none")
    /\ turn = 0
    /\ calc = NoCalc
    /\ \E k \in {"ask_llm", "extract_intent_variables"},
          f \in [1..StopAfterAttempt -> BOOLEAN], r \in LlmReplies :
         llm = [kind |-> k, fails |-> f, reply |-> r, attempts |-> 0,
                status |-> "pending", result |-> NoneV]

NextAskLlm == AskLlmAttempt \/ ExtractCallAttempt

SpecAskLlm == InitAskLlm /\ [][NextAskLlm]_vars

-----------------------------------------------------------------------------
(* The calculation engine called on its own: Init draws the arguments of    *)
(* one call, the action makes the call.                                     *)

IdleSession ==
    /\ data = << >>
    /\ missing_var = NoneV
    /\ last = TurnRecord("init", data, NoneV, NoneV, FALSE, NoReply("none"), FALSE, "none")
    /\ turn = 0
    /\ llm = NoCall

\* incomes at and around the bracket boundaries and the limits of the offsets
TaxIncomes ==
    {0, 1, 18200, 18201, 32279, 32280, 37500, 45000, 45001, 50119, 50120, 66667, 66668,
     134999, 135000, 135001, 189999, 190000, 190001, 250000}

TaxAges == {40, 66, 67}

\* two calls of calculate_after_tax_income for one age, on incomes a <= b
InitTax ==
    /\ IdleSession
    /\ \E a \in TaxIncomes, b \in TaxIncomes, age \in TaxAges, si \in {TrueV, FalseV} :
         /\ a <= b
         /\ calc = [fn |-> "calculate_after_tax_income", done |-> FALSE,
                    income_a |-> a, income_b |-> b, age |-> age, super_included |-> si,
                    after_a |-> 0, after_b |-> 0, base_tax_a |-> 0]

ApplyAfterTax ==
    /\ calc.fn = "calculate_after_tax_income"
    /\ ~calc.done
    /\ calc' = [calc EXCEPT
                  !.done = TRUE,
                  !.after_a = calculate_after_tax_income(calc.income_a, calc.age,
                                  calc.super_included, EMPLOYER_CONTRIBUTION_RATE),
                  !.after_b = calculate_after_tax_income(calc.income_b, calc.age,
                                  calc.super_included, EMPLOYER_CONTRIBUTION_RATE),
                  !.base_tax_a = BaseTax(1, calculate_income_net_of_super(calc.income_a,
                                  calc.super_included, EMPLOYER_CONTRIBUTION_RATE))]
    /\ UNCHANGED <<data, missing_var, last, turn, llm>>

NextTax == ApplyAfterTax

SpecTax == InitTax /\ [][NextTax]_vars

\* calculate_retirement_drawdown: the balance is followed month by month
\* (month, balance, depleted_at: the first month at which it is <= 0, -1 while
\* there is none), then the function is called on the same arguments;
\* the returns r are <<investment_return, inflation_rate>> in tenths of a percent
InitDrawdown ==
    /\ IdleSession
    /\ \E b \in {0, 1200, 10000}, i \in {0, 12, 6000, 40000},
          r \in {<<60, 25>>, <<25, 25>>}, a \in {60, 67} :
         calc = [fn |-> "calculate_retirement_drawdown", done |-> FALSE,
                 retirement_balance |-> b, annual_income |-> i,
                 investment_return |-> r[1], inflation_rate |-> r[2], retirement_age |-> a,
                 month |-> 0, balance |-> b, depleted_at |-> IF b <= 0 THEN 0 ELSE -1,
                 result |-> -1]

DrawdownMonth ==
    /\ calc.fn = "calculate_retirement_drawdown"
    /\ calc.depleted_at = -1
    /\ calc.month < DrawdownCap
    /\ LET b == DrawdownStep(calc.balance, calc.annual_income \div 12,
                             NetMonthlyReturn(calc.investment_return - calc.inflation_rate))
       IN  calc' = [calc EXCEPT !.month = calc.month + 1, !.balance = b,
                                !.depleted_at = IF b <= 0 THEN calc.month + 1 ELSE -1]
    /\ UNCHANGED <<data, missing_var, last, turn, llm>>

ApplyDrawdown ==
    /\ calc.fn = "calculate_retirement_drawdown"
    /\ ~calc.done
    /\ calc.depleted_at # -1 \/ calc.month = DrawdownCap
    /\ calc' = [calc EXCEPT
                  !.done = TRUE,
                  !.result = calculate_retirement_drawdown(calc.retirement_balance,
                                 calc.retirement_age, calc.annual_income,
                                 calc.investment_return, calc.inflation_rate)]
    /\ UNCHANGED <<data, missing_var, last, turn, llm>>

NextDrawdown == DrawdownMonth \/ ApplyDrawdown

SpecDrawdown == InitDrawdown /\ [][NextDrawdown]_vars

\* project_super_balance applied to arguments drawn at the start: the fund row
\* is the row of the table or a row whose three fees are 0; rates are in tenths
\* of a percent and r is <<investment_return, inflation_rate>>
ZeroFeeRow ==
    [ApproachType |-> "AGE", AgeMin |-> 0, AgeMax |-> 120,
     InvestmentFee |-> 0,
     AdminFee |-> << [min_bal |-> 0, max_bal |-> 500000, rate |-> 0] >>,
     MemberFee |-> 0]

InitProjection ==
    /\ IdleSession
    /\ \E ca \in {55, 60, 67}, ra \in {60, 67}, b \in {0, 1000, 50000}, i \in {0, 60000},
          wg \in {0, WAGE_GROWTH}, ecr \in {0, EMPLOYER_CONTRIBUTION_RATE},
          r \in {<<INVESTMENT_RETURN, INFLATION_RATE>>, <<INFLATION_RATE, INFLATION_RATE>>},
          row \in {ZeroFeeRow, FundTable.ART} :
         calc = [fn |-> "project_super_balance", done |-> FALSE,
                 current_age |-> ca, retirement_age |-> ra, current_balance |-> b,
                 income_net_of_super |-> i, wage_growth |-> wg,
                 employer_contribution_rate |-> ecr,
                 investment_return |-> r[1], inflation_rate |-> r[2],
                 current_fund_row |-> row, result |-> -1,
                 month |-> 0, previous_balance |-> b, balance |-> b]

\* one pass of the monthly loop, followed in the fields month, previous_balance
\* and balance
ProjectionMonth ==
    /\ calc.fn = "project_super_balance"
    /\ ~calc.done
    /\ calc.month < (calc.retirement_age - calc.current_age) * 12
    /\ calc' = [calc EXCEPT
                  !.month = calc.month + 1,
                  !.previous_balance = calc.balance,
                  !.balance = ProjectStep(calc.month + 1, calc.balance,
                                 calc.income_net_of_super, calc.wage_growth,
                                 calc.employer_contribution_rate,
                                 NetMonthlyReturn(calc.investment_return - calc.inflation_rate),
                                 calc.current_fund_row)]
    /\ UNCHANGED <<data, missing_var, last, turn, llm>>

ApplyProjection ==
    /\ calc.fn = "project_super_balance"
    /\ ~calc.done
    /\ calc' = [calc EXCEPT
                  !.done = TRUE,
                  !.result = project_super_balance(calc.current_age, calc.retirement_age,
                                 calc.current_balance, calc.income_net_of_super,
                                 calc.wage_growth, calc.employer_contribution_rate,
                                 calc.investment_return, calc.inflation_rate,
                                 calc.current_fund_row)]
    /\ UNCHANGED <<data, missing_var, last, turn, llm>>

NextProjection == ProjectionMonth \/ ApplyProjection

SpecProjection == InitProjection /\ [][NextProjection]_vars

\* calculate_age_pension applied to arguments drawn at the start, with two
\* values of total_assets (assets_a, assets_b) and everything else the same
InitPension ==
    /\ IdleSession
    /\ \E rs \in {"single", "couple"}, ho \in BOOLEAN,
          a \in {0, 294500, 294501, 400000, 505500, 654500, 700000, 1000000},
          b \in {294500, 400001, 443500, 654501, 800000, 1000000},
          ci \in {0, 5148, 5149, 9152, 60000, 100000},
          fa \in {0, 60400, 100800, 500000} :
         calc = [fn |-> "calculate_age_pension", done |-> FALSE,
                 relationship_status |-> rs, homeowner_status |-> ho,
                 assets_a |-> a, assets_b |-> b,
                 current_income |-> ci, financial_assets |-> fa,
                 result_a |-> NoCalc, result_b |-> NoCalc]

ApplyAgePension ==
    /\ calc.fn = "calculate_age_pension"
    /\ ~calc.done
    /\ calc' = [calc EXCEPT
                  !.done = TRUE,
                  !.result_a = calculate_age_pension(calc.relationship_status,
                                   calc.homeowner_status, calc.assets_a,
                                   calc.current_income, calc.financial_assets),
                  !.result_b = calculate_age_pension(calc.relationship_status,
                                   calc.homeowner_status, calc.assets_b,
                                   calc.current_income, calc.financial_assets)]
    /\ UNCHANGED <<data, missing_var, last, turn, llm>>

NextPension == ApplyAgePension

SpecPension == InitPension /\ [][NextPension]_vars

\* the three currency coercions applied to one text: the text is a written
\* number (mant / 10^dec) with or without "$" and a suffix, or a text that is
\* no number; a result is [ok |-> TRUE, value |-> dollars], [ok |-> FALSE] for
\* null and [ok |-> FALSE, raised |-> TRUE] for an exception
WrittenNumbers ==
    { [text |-> <<"1", "5", "0">>, mant |-> 150, dec |-> 0],
      [text |-> <<"7", "5">>, mant |-> 75, dec |-> 0],
      [text |-> <<"0">>, mant |-> 0, dec |-> 0],
      [text |-> <<"2", ",", "0", "0", "0">>, mant |-> 2000, dec |-> 0],
      [text |-> <<"1", ".", "5">>, mant |-> 15, dec |-> 1],
      [text |-> <<"9", "0", ",", "0", "0", "0">>, mant |-> 90000, dec |-> 0],
      [text |-> <<"1", ",", "2", "5", "0", ".", "5">>, mant |-> 12505, dec |-> 1] }

NotNumbers ==
    { << >>, <<"a", "b", "c">>, <<"k">>, <<"$">>, <<"1", ".", "2", ".", "3">>,
      <<"1", "2", "x">> }

InitCurrency ==
    /\ IdleSession
    /\ \/ \E n \in WrittenNumbers, sym \in {<< >>, <<"$">>},
            suf \in {<< >>, <<"k">>, <<"m">>, <<"K">>, <<"M">>} :
            LET factor == IF suf = << >> THEN 1 ELSE SuffixFactor(Lower(suf[1]))
            IN  /\ n.mant * (factor \div 1000) < 2000000
                /\ calc = [fn |-> "currency", done |-> FALSE,
                           text |-> sym \o n.text \o suf, parses |-> TRUE,
                           expected |-> Trunc(n.mant * factor, Pow10(n.dec)),
                           by_convert |-> NoCalc, by_parse |-> NoCalc,
                           by_extract |-> NoCalc]
       \/ \E t \in NotNumbers :
            calc = [fn |-> "currency", done |-> FALSE, text |-> t, parses |-> FALSE,
                    expected |-> 0, by_convert |-> NoCalc, by_parse |-> NoCalc,
                    by_extract |-> NoCalc]

ApplyCurrency ==
    /\ calc.fn = "currency"
    /\ ~calc.done
    /\ LET x == ConvertNumericText("current_balance", calc.text)
       IN  calc' = [calc EXCEPT
                      !.done = TRUE,
                      !.by_convert = ConvertCurrency(calc.text),
                      !.by_parse = IF ParseNumericRaises(calc.text)
                                   THEN [ok |-> FALSE, raised |-> TRUE]
                                   ELSE [ok |-> TRUE,
                                         value |-> parse_numeric_with_suffix(calc.text)],
                      !.by_extract = IF x.ok THEN [ok |-> TRUE, value |-> x.value]
                                     ELSE [ok |-> FALSE]]
    /\ UNCHANGED <<data, missing_var, last, turn, llm>>

NextCurrency == ApplyCurrency

SpecCurrency == InitCurrency /\ [][NextCurrency]_vars

\* validate_response applied to a message: a written whole number (value) or
\* a text that is none (value -1), for each variable asked and for a context
\* without current_age or with one
ValidateMessages ==
    { [text |-> <<"0">>, value |-> 0], [text |-> <<"1", "4">>, value |-> 14],
      [text |-> <<"1", "5">>, value |-> 15], [text |-> <<"1", "6">>, value |-> 16],
      [text |-> <<"4", "2">>, value |-> 42], [text |-> <<"6", "0">>, value |-> 60],
      [text |-> <<"6", "1">>, value |-> 61], [text |-> <<"6", "7">>, value |-> 67],
      [text |-> <<"9", "9">>, value |-> 99], [text |-> <<"1", "0", "0">>, value |-> 100],
      [text |-> <<"1", "0", "1">>, value |-> 101], [text |-> <<"1", "k">>, value |-> 1000],
      [text |-> <<"a", "b", "c">>, value |-> -1], [text |-> <<"-", "5">>, value |-> -1],
      [text |-> <<"1", ".", "2", ".", "3">>, value |-> -1] }

InitValidate ==
    /\ IdleSession
    /\ \E v \in {"age", "desired retirement age", "super balance", "current income",
                 "current fund"},
          m \in ValidateMessages,
          c \in {<< >>} \cup {[current_age |-> a] : a \in {15, 60, 67, 100}} :
         calc = [fn |-> "validate_response", done |-> FALSE, var_name |-> v,
                 user_message |-> m.text, written |-> m.value, context |-> c,
                 result |-> NoCalc]

ApplyValidate ==
    /\ calc.fn = "validate_response"
    /\ ~calc.done
    /\ calc' = [calc EXCEPT
                  !.done = TRUE,
                  !.result = validate_response(calc.var_name, calc.user_message,
                                               calc.context)]
    /\ UNCHANGED <<data, missing_var, last, turn, llm>>

NextValidate == ApplyValidate

SpecValidate == InitValidate /\ [][NextValidate]_vars

\* convert_variable_type applied to a boolean variable and a text: a configured
\* phrase of the variable or a text holding none, as written, with a leading
\* blank or with a capital first letter
Unconfigured == { <<"m", "a", "y", "b", "e">>,
    << >>,
    <<"s", "u", "r", "e">>,
    <<"i", "d", "k">> }

Capitalised(s) ==
    IF s = << >> THEN s
    ELSE [i \in 1..Len(s) |->
            IF i = 1 /\ \E j \in 1..Len(LowerCase) : LowerCase[j] = s[1]
            THEN UpperCase[CHOOSE j \in 1..Len(LowerCase) : LowerCase[j] = s[1]]
            ELSE s[i]]

InitBoolean ==
    /\ IdleSession
    /\ \E v \in {"super_included", "homeowner_status"}, lead \in {<< >>, <<" ">>},
          capital \in BOOLEAN :
         \E p \in true_values(v) \cup false_values(v) \cup Unconfigured :
            calc = [fn |-> "convert_variable_type", done |-> FALSE, variable_name |-> v,
                    phrase |-> p,
                    configured |-> IF p \in true_values(v) THEN "true"
                                   ELSE IF p \in false_values(v) THEN "false"
                                   ELSE "none",
                    value |-> lead \o (IF capital THEN Capitalised(p) ELSE p),
                    result |-> NoneV]

ApplyBoolean ==
    /\ calc.fn = "convert_variable_type"
    /\ ~calc.done
    /\ calc' = [calc EXCEPT !.done = TRUE,
                            !.result = ConvertBoolean(calc.variable_name, calc.value)]
    /\ UNCHANGED <<data, missing_var, last, turn, llm>>

NextBoolean == ApplyBoolean

SpecBoolean == InitBoolean /\ [][NextBoolean]_vars

\* update_calculated_values applied to a dict of slots, then
\* process_retirement_outcome called with the dict it returned
Slot(k, v, absent) == IF v = absent THEN << >> ELSE (k :> v)

InitDerived ==
    /\ IdleSession
    /\ \E income \in {0, 50000, 90000}, included \in {NoneV, TrueV, FalseV},
          age \in {60, 67}, retirement \in {0, 61, 68}, balance \in {0, 100000},
          fund \in {NoneV, "ART"}, income_wanted \in {0, 40000},
          option \in {NoneV, "same_as_current", "modest_single", "custom"} :
         calc = [fn |-> "update_calculated_values", step |-> 0,
                 slots |-> Slot("current_income", income, 0)
                           @@ Slot("super_included", included, NoneV)
                           @@ ("current_age" :> age)
                           @@ Slot("retirement_age", retirement, 0)
                           @@ Slot("current_balance", balance, 0)
                           @@ Slot("current_fund", fund, NoneV)
                           @@ Slot("retirement_income", income_wanted, 0)
                           @@ Slot("retirement_income_option", option, NoneV),
                 derived |-> << >>, outcome |-> NoHandler]

ApplyUpdateCalculated ==
    /\ calc.fn = "update_calculated_values"
    /\ calc.step = 0
    /\ calc' = [calc EXCEPT !.step = 1, !.derived = update_calculated_values(calc.slots)]
    /\ UNCHANGED <<data, missing_var, last, turn, llm>>

ApplyRetirementOutcome ==
    /\ calc.fn = "update_calculated_values"
    /\ calc.step = 1
    /\ calc' = [calc EXCEPT !.step = 2, !.outcome = process_retirement_outcome(calc.derived)]
    /\ UNCHANGED <<data, missing_var, last, turn, llm>>

NextDerived == ApplyUpdateCalculated \/ ApplyRetirementOutcome

SpecDerived == InitDerived /\ [][NextDerived]_vars

\* chat_fn on a session that awaits a variable, when every question is
\* answered by a value that is extracted and valid and the reply is classified
\* as unknown or as the intent held.  The session starts as the first query of
\* an intent, mentioning some of the variables, left it.
MaxFillTurns == 10

GoodAnswers(expected_var) ==
    CASE expected_var = "current_age" -> { RawNum(expected_var, 60) }
      [] expected_var = "retirement_age" -> { RawNum(expected_var, 61) }
      [] expected_var = "current_balance" ->
            { RawNum(expected_var, 100000),
              RawText(expected_var, <<"$", "1", "0", "0", "k">>) }
      [] expected_var = "current_income" -> { RawNum(expected_var, 90000) }
      [] expected_var \in fund_vars -> { RawName(expected_var, "ART") }
      [] expected_var = "super_included" ->
            { Raw(expected_var, "bool") @@ [b |-> FALSE],
              RawPhrase(expected_var, "yes", << >>, NoneV) }
      [] expected_var = "retirement_income_option" ->
            { RawPhrase(expected_var, "same", << >>, NoneV),
              RawPhrase(expected_var, "modest single", << >>, NoneV) }
      [] OTHER -> {}

KeptIntent(d) ==
    {[ex |-> default_data(("intent" :> i)), ov |-> NoOverride, affirm |-> FALSE] :
         i \in {"unknown", GetStr(d, "intent")}}

FillMentions == Mentions \cup { [current_income |-> 90000] }

InitFill ==
    /\ \E i \in Calculations, m \in FillMentions :
         LET r == process_query([super_included |-> NoneV], NoneV,
                                default_data(("intent" :> i) @@ m), NoOverride, FALSE)
         IN  /\ r.reply = "question"
             /\ data = r.data
             /\ missing_var = r.missing_var
             /\ last = TurnRecord("idle", [super_included |-> NoneV], NoneV, i, FALSE, r,
                                  FALSE, "none")
    /\ turn = 0
    /\ llm = NoCall
    /\ calc = NoCalc

FillNextQuestion ==
    /\ turn < MaxFillTurns
    /\ missing_var # NoneV
    /\ \E raw \in GoodAnswers(var_map(missing_var)) :
         LET extraction == extract_variable_from_response(missing_var, raw)
             d1 == StoreAnswer(data, missing_var, extraction)
         IN  /\ extraction.ok
             /\ ChatMissingVars(d1) # << >>
             /\ data' = d1
             /\ missing_var' = ChatMissingVars(d1)[1]
             /\ last' = TurnRecord("await", data, missing_var, NoneV, FALSE,
                                   NoReply("question"), TRUE,
                                   ExtractionFailure(missing_var, raw))
    /\ turn' = turn + 1
    /\ UNCHANGED <<llm, calc>>

FillComplete ==
    /\ turn < MaxFillTurns
    /\ missing_var # NoneV
    /\ \E raw \in GoodAnswers(var_map(missing_var)), q \in KeptIntent(data) :
         LET extraction == extract_variable_from_response(missing_var, raw)
             d1 == StoreAnswer(data, missing_var, extraction)
             r == process_query(d1, NoneV, q.ex, q.ov, q.affirm)
         IN  /\ extraction.ok
             /\ ChatMissingVars(d1) = << >>
             /\ data' = r.data
             /\ missing_var' = r.missing_var
             /\ last' = TurnRecord("await", data, missing_var, q.ex["intent"], q.affirm,
                                   r, TRUE, ExtractionFailure(missing_var, raw))
    /\ turn' = turn + 1
    /\ UNCHANGED <<llm, calc>>

NextFill == FillNextQuestion \/ FillComplete

\* ENABLED <<NextFill>>_vars written out: a step of NextFill raises turn, and
\* one of its two actions can be taken as soon as an answer is extracted
FillEnabled ==
    /\ turn < MaxFillTurns
    /\ missing_var # NoneV
    /\ \E raw \in GoodAnswers(var_map(missing_var)) :
         extract_variable_from_response(missing_var, raw).ok

\* the user goes on answering: weak fairness of NextFill, that is WF_vars(NextFill)
\* with the enabling condition in the form above
FillFairness == []<>(~FillEnabled) \/ []<><<NextFill>>_vars

SpecFill == InitFill /\ [][NextFill]_vars /\ FillFairness

-----------------------------------------------------------------------------
(* Properties *)

\* whether slot k holds a value: a non-zero number, a non-empty name, a boolean
Filled(d, k) ==
    IF k \in numeric_vars THEN GetNum(d, k) # 0
    ELSE TruthyStr(GetStr(d, k))

ProjectBalanceOrder ==
    <<"current_age", "current_fund", "current_balance", "retirement_age",
      "current_income", "super_included">>

\* the first k variables of the order hold valid values, the others nothing
AnsweredUpTo(d, k) ==
    /\ \A j \in 1..Len(ProjectBalanceOrder) : Filled(d, ProjectBalanceOrder[j]) <=> j <= k
    /\ k >= 1 => d["current_age"] \in 15..100
    /\ k >= 2 => d["current_fund"] \in FundNames
    /\ k >= 3 => d["current_balance"] > 0
    /\ k >= 4 => d["retirement_age"] > d["current_age"] /\ d["retirement_age"] <= 100
    /\ k >= 5 => d["current_income"] > 0

\* C1: from empty slots with intent project_balance and with every asked
\* variable answered by a valid value, the variables are asked one per turn in
\* the order age, current fund, super balance, retirement age, current income,
\* super_included: after the query the age is asked, and after the valid answer
\* to the k-th variable of the order the (k+1)-th is asked.
C1_ProjectBalanceAskOrder ==
    /\ ( /\ last.op = "idle"
         /\ last.intent = "project_balance"
         /\ last.reply = "question"
         /\ AnsweredUpTo(data, 0) )
       => var_map(missing_var) = ProjectBalanceOrder[1]
    /\ \A k \in 1..(Len(ProjectBalanceOrder) - 1) :
         ( /\ last.op = "await"
           /\ last.accepted
           /\ GetStr(data, "intent") = "project_balance"
           /\ var_map(last.awaiting_before) = ProjectBalanceOrder[k]
           /\ AnsweredUpTo(data, k) )
         => var_map(missing_var) = ProjectBalanceOrder[k + 1]

\* the state in which the age has just been given and the next variable asked
C1_AgeAnswered ==
    /\ last.op = "await"
    /\ last.accepted
    /\ GetStr(data, "intent") = "project_balance"
    /\ var_map(last.awaiting_before) = "current_age"
    /\ AnsweredUpTo(data, 1)

InputSlots ==
    {"current_age", "current_balance", "current_income", "current_fund", "nominated_fund",
     "super_included", "retirement_age", "retirement_income_option", "retirement_income"}

\* C2: a turn classified update_variable leaves no input slot that held a value
\* null, zero or empty.
C2_UpdateKeepsCollectedSlots ==
    [][ last'.classified = "update_variable"
        => \A k \in InputSlots : Filled(data, k) => Filled(data', k) ]_vars

\* an update_variable turn taken with a fund already collected
C2_UpdateWithFundCollected ==
    /\ last.classified = "update_variable"
    /\ Filled(data, "current_fund")
    /\ Filled(data, "current_age")

\* C3: on a turn classified update_variable, original_intent becomes the real
\* intent that was active just before the turn, and the calculation re-run is
\* the handler of that intent.
C3_OriginalIntentIsActiveIntent ==
    [][ ( /\ last'.op = "idle"
          /\ last'.classified = "update_variable"
          /\ GetStr(data, "intent") \in Calculations )
        => /\ GetStr(data', "original_intent") = data["intent"]
           /\ last'.outcome.kind # "none" => last'.outcome.handler = data["intent"] ]_vars

\* an update_variable turn made while a calculation intent was active
C3_UpdateAfterCalculation ==
    /\ last.op = "idle"
    /\ last.classified = "update_variable"
    /\ last.intent_before \in Calculations
    /\ last.outcome.handler = last.intent_before

\* C4: once the session intent is a value other than unknown, no turn leaves it
\* equal to unknown.
C4_IntentNeverRegresses ==
    [][ GetStr(data, "intent") \notin {NoneV, "", "unknown"}
        => GetStr(data', "intent") # "unknown" ]_vars

\* a turn classified unknown after which the established intent is still held
C4_UnknownKeptIntent ==
    /\ last.classified = "unknown"
    /\ last.intent_before \in Calculations
    /\ GetStr(data, "intent") = last.intent_before

IncomeOptions ==
    {"same_as_current", "modest_single", "modest_couple", "comfortable_single",
     "comfortable_couple", "custom"}

\* slot v holds a value of its schema type that lies in its domain
InDomain(d, v) ==
    CASE v = "current_age" -> Has(d, v) /\ d[v] \in 15..100
      [] v = "retirement_age" ->
            Has(d, v) /\ d[v] > GetNum(d, "current_age") /\ d[v] <= 100
      [] v \in {"current_balance", "current_income", "retirement_income"} ->
            Has(d, v) /\ d[v] >= 0
      [] v \in fund_vars -> TruthyStr(GetStr(d, v))
      [] v = "super_included" -> GetStr(d, v) \in {TrueV, FalseV}
      [] v = "retirement_income_option" -> GetStr(d, v) \in IncomeOptions
      [] OTHER -> TRUE

\* C6: the awaited variable is cleared only when a valid typed value for it is
\* accepted: when a turn starts with v awaited and ends with v no longer
\* awaited, slot v holds a value of its type that lies in its domain.
C6_ClearedOnlyOnValidValue ==
    [][ ( /\ missing_var # NoneV
          /\ var_map(missing_var') # var_map(missing_var) )
        => InDomain(data', var_map(missing_var)) ]_vars

\* an accepted answer after which another variable, or none, is awaited
C6_AnswerAccepted ==
    /\ last.op = "await"
    /\ last.accepted
    /\ var_map(missing_var) # var_map(last.awaiting_before)
    /\ InDomain(data, var_map(last.awaiting_before))

\* C7: in every session state the currency slots are non-negative, current_age
\* when stored lies between 15 and 100, and retirement_age is between 0 and 100.
C7_SlotsInRange ==
    /\ \A k \in {"current_balance", "current_income", "retirement_income"} :
         GetNum(data, k) >= 0
    /\ GetNum(data, "current_age") # 0 => data["current_age"] \in 15..100
    /\ GetNum(data, "retirement_age") \in 0..100

\* a session state that holds an age and a balance
C7_AgeAndBalanceStored ==
    /\ GetNum(data, "current_age") # 0
    /\ GetNum(data, "current_balance") # 0

\* C8: whenever the handler of a calculation intent X is dispatched, directly
\* or as the re-run of update_variable, no variable of X's checklist is missing.
C8_HandlerInputsPresent ==
    last.outcome.handler \in Calculations
    => MissingVars(last.outcome.handler, data) = << >>

\* a calculation re-run by an update_variable turn
C8_RerunByUpdate ==
    /\ last.intent = "update_variable"
    /\ last.outcome.handler \in Calculations

\* C9: after a turn in which the handler of X computes an answer, the session
\* state holds suggested_next_intent equal to the successor of X in the
\* adjacency map.
C9_SuggestionHeldAfterAnswer ==
    ( /\ last.outcome.kind = "computed"
      /\ last.outcome.handler \in Calculations )
    => GetStr(data, "suggested_next_intent")
           = INTENT_CONNECTIONS[last.outcome.handler]

\* a computed answer together with the follow-up it suggests
C9_AnswerComputed ==
    /\ last.outcome.kind = "computed"
    /\ last.outcome.handler \in Calculations
    /\ last.outcome.suggested # NoneV

\* C10: when nothing is awaited, the session holds a suggestion S and the
\* utterance is affirmative (and is not classified as another intent), then
\* after the turn the intent is S, previous_intent is the intent that was
\* active before the turn, and the suggestion is cleared.
C10_AffirmativeAdoptsSuggestion ==
    ( /\ last.op = "api"
      /\ last.awaiting_before = NoneV
      /\ TruthyStr(last.suggested_before)
      /\ last.affirm
      /\ last.classified \in {"unknown", last.suggested_before} )
    => /\ GetStr(data, "intent") = last.suggested_before
       /\ GetStr(data, "previous_intent") = last.intent_before
       /\ ~Has(data, "suggested_next_intent")

\* an affirmative request after which the suggested intent is the intent
C10_SuggestionAdopted ==
    /\ last.op = "api"
    /\ last.awaiting_before = NoneV
    /\ TruthyStr(last.suggested_before)
    /\ last.affirm
    /\ GetStr(data, "intent") = last.suggested_before

\* the step adopts the suggestion the state held: it becomes the intent and
\* is no longer held
SuggestionAdopted ==
    /\ TruthyStr(GetStr(data, "suggested_next_intent"))
    /\ ~Has(data', "suggested_next_intent")
    /\ GetStr(data', "intent") = data["suggested_next_intent"]

\* C11: a suggestion is adopted as the session intent only by an affirmative
\* turn that directly follows the answer that proposed it: never by a
\* non-affirmative turn, and never by a turn that comes after a non-affirmative
\* turn has followed the proposal.
C11_AdoptedOnlyByNextAffirmative ==
    [][ SuggestionAdopted => (last'.affirm /\ turn = 0) ]_vars

\* the suggestion adopted by the affirmative turn that follows the proposal
C11_AdoptedAtOnce ==
    /\ last.op = "session"
    /\ turn = 1
    /\ last.affirm
    /\ TruthyStr(last.suggested_before)
    /\ GetStr(data, "intent") = last.suggested_before
    /\ ~Has(data, "suggested_next_intent")

\* C12: after every completed turn each derived field whose prerequisite slots are all
\* present equals the value computed from the slots the state holds at the
\* end of the turn: income_net_of_super from current_income and
\* super_included, after_tax_income from current_income and current_age,
\* retirement_balance from the ages, the balance, the net income and the fund,
\* retirement_drawdown_age from the retirement balance, the retirement age
\* and the retirement income.
C12_DerivedFieldsCurrent ==
    last.reply # "raised" =>
    /\ (GetNum(data, "current_income") # 0 /\ GetStr(data, "super_included") # NoneV)
       => GetNum(data, "income_net_of_super")
              = calculate_income_net_of_super(data["current_income"], data["super_included"],
                                              EMPLOYER_CONTRIBUTION_RATE)
    /\ (GetNum(data, "current_income") # 0 /\ GetNum(data, "current_age") # 0)
       => GetNum(data, "after_tax_income")
              = calculate_after_tax_income(data["current_income"], data["current_age"],
                                           FalseV, EMPLOYER_CONTRIBUTION_RATE)
    /\ UpdateRetirementBalance(data) = data
    /\ UpdateDrawdownAge(data) = data

\* a turn that changed a slot of a state holding the four derived fields
C12_DerivedAfterUpdate ==
    /\ last.classified = "update_variable"
    /\ GetNum(data, "income_net_of_super") # 0
    /\ GetNum(data, "after_tax_income") # 0
    /\ GetNum(data, "retirement_balance") # 0
    /\ GetNum(data, "retirement_drawdown_age") # 0

\* the first attempt of the call on which the service does not fail (0: none)
FirstSuccess(call) ==
    IF \A i \in 1..StopAfterAttempt : call.fails[i] THEN 0
    ELSE CHOOSE i \in 1..StopAfterAttempt :
             /\ ~call.fails[i]
             /\ \A j \in 1..(i - 1) : call.fails[j]

\* C14: a call of the service that fails transiently is attempted again, up
\* to 5 attempts: a finished call returns the reply of the first attempt that
\* did not fail, after exactly that many attempts, and returns the apology
\* only when all 5 attempts failed.
C14_RetriedUntilSuccess ==
    llm.status \in {"returned", "raised"}
    => IF FirstSuccess(llm) > 0
       THEN /\ llm.status = "returned"
            /\ llm.result = llm.reply
            /\ llm.attempts = FirstSuccess(llm)
       ELSE /\ llm.status = "returned"
            /\ llm.result = Apology
            /\ llm.attempts = StopAfterAttempt

\* a call of ask_llm that returned the reply of its first attempt
C14_ReturnedAtFirstAttempt ==
    /\ llm.kind = "ask_llm"
    /\ llm.status = "returned"
    /\ llm.attempts = 1
    /\ llm.result = llm.reply

\* C13: a failure of the Language Inference Service during a turn, Idle or
\* awaiting a variable, never leaves the turn: every turn returns a message
\* (a question, an answer or a re-ask).
C13_TurnReturnsMessage ==
    last.op \in {"idle", "await"} => last.reply \in {"question", "answer", "reask"}

\* a failure of the service that the turn absorbed: the reply was no JSON
\* object and the variable is asked again
C13_FailureAbsorbed ==
    /\ last.op = "await"
    /\ last.failure = "empty"
    /\ last.reply = "reask"

SessionKeys == InputSlots \cup {"intent", "previous_intent", "original_intent"}

\* C15: a turn abandoned part-way leaves the session state as it was before
\* the turn: the slots, intent, previous_intent, original_intent and the
\* awaited variable.
C15_AbandonedTurnChangesNothing ==
    [][ last'.reply = "raised"
        => /\ missing_var' = missing_var
           /\ \A k \in SessionKeys :
                /\ Has(data', k) <=> Has(data, k)
                /\ Has(data, k) => data'[k] = data[k] ]_vars

\* an abandoned turn after which the state is the state before it
C15_AbandonedBeforeWriting ==
    /\ last.reply = "raised"
    /\ last.classified = NoneV
    /\ last.op = "idle"
    /\ GetStr(data, "intent") = last.intent_before
    /\ last.intent_before \in Calculations

\* C16: for a fixed age calculate_after_tax_income is non-decreasing in the
\* income: for incomes a <= b the after-tax income of a is at most that of b.
C16_AfterTaxMonotone ==
    (calc.fn = "calculate_after_tax_income" /\ calc.done)
    => calc.after_a <= calc.after_b

\* two calls on incomes on either side of the 45,000 boundary
C16_AcrossBoundary ==
    /\ calc.fn = "calculate_after_tax_income"
    /\ calc.done
    /\ calc.super_included = FalseV
    /\ calc.income_a = 45000
    /\ calc.income_b = 45001
    /\ calc.after_a <= calc.after_b

\* C17: the total tax is floored at 0, so for every income >= 0 and every age
\* the after-tax income is at least 0 and at most the income net of super,
\* and income 0 gives after-tax income 0.
C17_AfterTaxWithinIncome ==
    (calc.fn = "calculate_after_tax_income" /\ calc.done)
    => /\ calc.after_a >= 0
       /\ calc.after_a <= calculate_income_net_of_super(calc.income_a, calc.super_included,
                                                        EMPLOYER_CONTRIBUTION_RATE)
       /\ calc.income_a = 0 => calc.after_a = 0

\* a call on an income whose offsets exceed the tax, at pension age
C17_OffsetsExceedTax ==
    /\ calc.fn = "calculate_after_tax_income"
    /\ calc.done
    /\ calc.age = 67
    /\ calc.income_a = 18201
    /\ calc.after_a = 18201

\* C18: with annual income 0, a positive starting balance and a non-negative
\* net return the drawdown never depletes: the full 1,200 months are run and
\* the sentinel 200 is returned, for every retirement age.
C18_NoIncomeNeverDepletes ==
    ( /\ calc.fn = "calculate_retirement_drawdown"
      /\ calc.done
      /\ calc.annual_income = 0
      /\ calc.retirement_balance > 0
      /\ calc.investment_return >= calc.inflation_rate )
    => /\ calc.result = 200
       /\ calc.month = DrawdownCap
       /\ calc.depleted_at = -1

\* a call with no income drawn, made after the 1,200 months were followed
C18_NoIncomeCall ==
    /\ calc.fn = "calculate_retirement_drawdown"
    /\ calc.done
    /\ calc.annual_income = 0
    /\ calc.retirement_balance = 1200
    /\ calc.retirement_age = 67
    /\ calc.result = 200

\* C19: calculate_retirement_drawdown returns the sentinel 200 exactly when the
\* balance stayed above 0 through all 1,200 months, and when the balance is
\* first <= 0 in month m (0 <= m <= 1,200) it returns retirement_age + m div 12.
C19_DepletionAge ==
    (calc.fn = "calculate_retirement_drawdown" /\ calc.done)
    => IF calc.depleted_at = -1
       THEN calc.result = 200
       ELSE calc.result = calc.retirement_age + (calc.depleted_at \div 12)

\* a call whose balance is depleted within the first years
C19_DepletedEarly ==
    /\ calc.fn = "calculate_retirement_drawdown"
    /\ calc.done
    /\ calc.depleted_at > 12
    /\ calc.depleted_at < DrawdownCap
    /\ calc.result = calc.retirement_age + (calc.depleted_at \div 12)

\* the balance is first <= 0 in month 1,200 and the sentinel is returned
C19_DepletedInLastMonth ==
    /\ calc.fn = "calculate_retirement_drawdown"
    /\ calc.done
    /\ calc.depleted_at = DrawdownCap
    /\ calc.balance <= 0
    /\ calc.result = 200

\* C20: project_super_balance with wage growth 0, employer rate 0, investment
\* return equal to inflation and a fund row whose fees are all 0 returns the
\* starting balance unchanged, for every starting balance, income and ages.
C20_NoGrowthNoDrag ==
    ( /\ calc.fn = "project_super_balance"
      /\ calc.done
      /\ calc.wage_growth = 0
      /\ calc.employer_contribution_rate = 0
      /\ calc.investment_return = calc.inflation_rate
      /\ calc.current_fund_row.InvestmentFee = 0
      /\ calc.current_fund_row.MemberFee = 0
      /\ \A k \in DOMAIN calc.current_fund_row.AdminFee :
            calc.current_fund_row.AdminFee[k].rate = 0 )
    => calc.result = calc.current_balance

\* a projection over twelve years of a positive balance with an income, nothing
\* growing and nothing charged
C20_ProjectedFlat ==
    /\ calc.fn = "project_super_balance"
    /\ calc.done
    /\ calc.current_age = 55
    /\ calc.retirement_age = 67
    /\ calc.current_balance = 50000
    /\ calc.income_net_of_super = 60000
    /\ calc.wage_growth = 0
    /\ calc.employer_contribution_rate = 0
    /\ calc.investment_return = calc.inflation_rate
    /\ calc.current_fund_row = ZeroFeeRow
    /\ calc.result = 50000

\* the assets threshold of age_pension_params for a status, in dollars
PensionAssetsLimit(rs, ho) ==
    CASE rs = "single" /\ ho -> 294500
      [] rs = "single" /\ ~ho -> 505500
      [] rs # "single" /\ ho -> 443500
      [] OTHER -> 654500

\* employment income plus deemed income is within the income-free area
\* (198 or 352 a fortnight), amounts in ten-thousandths of a dollar a year
WithinIncomeFreeArea(rs, ci, r) ==
    ci * 10000 + r.deemed_income_annual
        <= 26 * 10000 * (IF rs = "single" THEN 198 ELSE 352)

\* C21: for every input of calculate_age_pension, annual_pension is the minimum
\* of the income-test and the assets-test annual results, and it is the maximum
\* pension of the relationship status whenever total assets are at or below the
\* assets threshold and employment plus deemed income is at or below the
\* income-free area.
C21_PensionIsLowerTest ==
    (calc.fn = "calculate_age_pension" /\ calc.done)
    => \A x \in {<<calc.assets_a, calc.result_a>>, <<calc.assets_b, calc.result_b>>} :
         /\ x[2].annual_pension
              = Min(x[2].income_test_pension_annual, x[2].assets_test_pension_annual)
         /\ ( /\ x[1] <= PensionAssetsLimit(calc.relationship_status, calc.homeowner_status)
              /\ WithinIncomeFreeArea(calc.relationship_status, calc.current_income, x[2]) )
            => x[2].annual_pension
                 = 10000 * (IF calc.relationship_status = "single" THEN 30558 ELSE 46065)

\* a single non-homeowner under both limits is paid the maximum, and the same
\* person with more assets is paid what the assets test leaves
C21_MaximumAndTapered ==
    /\ calc.fn = "calculate_age_pension"
    /\ calc.done
    /\ calc.relationship_status = "single"
    /\ ~calc.homeowner_status
    /\ calc.assets_a = 400000
    /\ calc.assets_b = 654501
    /\ calc.current_income = 5148
    /\ calc.financial_assets = 0
    /\ calc.result_a.annual_pension = 305580000
    /\ calc.result_b.annual_pension = 305580000 - 149001 * 975
    /\ calc.result_b.determining_test = "assets"

\* C22: with all other inputs fixed, any increase of total assets between two
\* values that are both strictly above the applicable assets threshold strictly
\* decreases the assets-test pension result.
C22_AssetsTestStrictlyDecreasing ==
    ( /\ calc.fn = "calculate_age_pension"
      /\ calc.done
      /\ calc.assets_a > PensionAssetsLimit(calc.relationship_status, calc.homeowner_status)
      /\ calc.assets_a < calc.assets_b )
    => calc.result_b.assets_test_pension_annual < calc.result_a.assets_test_pension_annual

\* two asset values above the threshold where the taper applies to both
C22_TaperedTwice ==
    /\ calc.fn = "calculate_age_pension"
    /\ calc.done
    /\ calc.relationship_status = "single"
    /\ calc.homeowner_status
    /\ calc.assets_a = 294501
    /\ calc.assets_b = 400001
    /\ calc.result_a.assets_test_pension_annual = 305580000 - 975
    /\ calc.result_b.assets_test_pension_annual < calc.result_a.assets_test_pension_annual

\* two asset values above the threshold whose assets-test result is 0 alike
C22_BothTaperedToZero ==
    /\ calc.fn = "calculate_age_pension"
    /\ calc.done
    /\ calc.relationship_status = "single"
    /\ calc.homeowner_status
    /\ calc.assets_a = 700000
    /\ calc.assets_b = 800000
    /\ calc.result_a.assets_test_pension_annual = 0
    /\ calc.result_b.assets_test_pension_annual = 0

\* what the coercion of calc.text has to give: the written number times the
\* factor of its suffix, null for a text that is no number
CoercionExpected ==
    IF calc.parses THEN [ok |-> TRUE, value |-> calc.expected] ELSE [ok |-> FALSE]

\* C23: currency coercion of a text made of an optional currency symbol, digits
\* with optional thousands commas and decimal point and an optional suffix k or
\* m in either case gives the written number times 1, 1,000 or 1,000,000, and
\* a text that does not parse gives null; this for convert_variable_type,
\* parse_numeric_with_suffix and extract_variable_from_response alike.
C23_CurrencyCoercion ==
    (calc.fn = "currency" /\ calc.done)
    => /\ calc.by_convert = CoercionExpected
       /\ calc.by_extract = CoercionExpected
       /\ calc.by_parse = CoercionExpected

\* "1.5M" coerced to 1500000 by the three coercions
C23_SuffixApplied ==
    /\ calc.fn = "currency"
    /\ calc.done
    /\ calc.text = <<"1", ".", "5", "M">>
    /\ calc.by_convert = [ok |-> TRUE, value |-> 1500000]
    /\ calc.by_extract = [ok |-> TRUE, value |-> 1500000]
    /\ calc.by_parse = [ok |-> TRUE, value |-> 1500000]

\* "$90,000" coerced to 90000 by two coercions and to 0 by
\* parse_numeric_with_suffix
C23_DollarSignGivesZero ==
    /\ calc.fn = "currency"
    /\ calc.done
    /\ calc.text = <<"$", "9", "0", ",", "0", "0", "0">>
    /\ calc.by_convert = [ok |-> TRUE, value |-> 90000]
    /\ calc.by_parse = [ok |-> TRUE, value |-> 0]

\* C24: age validation accepts a value exactly when 15 <= age <= 100:
\* validate_response for the age variable returns valid for every age in that
\* range and invalid for every age outside it.
C24_AgeAcceptedInRange ==
    ( /\ calc.fn = "validate_response"
      /\ calc.done
      /\ calc.var_name = "age"
      /\ calc.written >= 0 )
    => /\ calc.result.valid <=> (15 <= calc.written /\ calc.written <= 100)
       /\ calc.result.valid => calc.result.value = calc.written

\* the age 100 validated, at the upper end of the range
C24_UpperEndAccepted ==
    /\ calc.fn = "validate_response"
    /\ calc.done
    /\ calc.var_name = "age"
    /\ calc.written = 100
    /\ calc.result = [valid |-> TRUE, value |-> 100]

\* C25: retirement-age validation accepts a value only if it is strictly
\* greater than the current_age held in the context: every value equal to or
\* lower than current_age is rejected, whatever its magnitude.
C25_RetirementAgeAboveCurrent ==
    ( /\ calc.fn = "validate_response"
      /\ calc.done
      /\ calc.var_name = "desired retirement age"
      /\ calc.written >= 0
      /\ "current_age" \in DOMAIN calc.context )
    => /\ calc.result.valid => calc.written > calc.context["current_age"]
       /\ calc.written <= calc.context["current_age"] => ~calc.result.valid

\* a retirement age equal to the current age rejected
C25_EqualRejected ==
    /\ calc.fn = "validate_response"
    /\ calc.done
    /\ calc.var_name = "desired retirement age"
    /\ calc.context = [current_age |-> 60]
    /\ calc.written = 60
    /\ calc.result = [valid |-> FALSE]

\* the handlers that look the fund of the session up, and the funds each uses
FundHandlers ==
    {"project_balance", "compare_fees_nominated", "compare_balance_projection",
     "retirement_outcome"}

FundUnmatched(d, handler) ==
    \/ TruthyStr(GetStr(d, "current_fund")) /\ match_fund_name(d["current_fund"]) = NoneV
    \/ /\ handler \in {"compare_fees_nominated", "compare_balance_projection"}
       /\ TruthyStr(GetStr(d, "nominated_fund"))
       /\ match_fund_name(d["nominated_fund"]) = NoneV

\* C26: when the fund name cannot be matched or no fee row applies to the
\* fund, the intent handler returns an explanatory message without raising and
\* computes no projection (the turn goes on and the session is kept).
C26_UnmatchedFundShortCircuits ==
    ( /\ last.reply = "answer"
      /\ last.outcome.handler \in FundHandlers
      /\ FundUnmatched(data, last.outcome.handler) )
    => /\ last.outcome.kind = "short"
       /\ last.outcome.value = 0

\* a projection asked for a fund that is not in the table, answered by the
\* message that no fee data was found
C26_ProjectionRefused ==
    /\ last.reply = "answer"
    /\ last.outcome.handler = "project_balance"
    /\ GetStr(data, "current_fund") = "zzz"
    /\ last.outcome.kind = "short"

\* a retirement outcome computed for a fund that is not in the table, from the
\* retirement balance the recomputation of the derived fields had stored
C26_OutcomeForUnknownFund ==
    /\ last.reply = "answer"
    /\ last.outcome.handler = "retirement_outcome"
    /\ GetStr(data, "current_fund") = "zzz"
    /\ last.outcome.kind = "computed"
    /\ GetNum(data, "retirement_balance") > 0

\* C27: for every intent of the enumeration other than unknown, a turn whose
\* missing-variable list is empty dispatches that intent's own calculation; in
\* particular calculate_age_pension runs the age-pension means test.
C27_OwnCalculationDispatched ==
    ( /\ last.reply = "answer"
      /\ last.intent \in {"project_balance", "compare_fees_nominated", "compare_fees_all",
                          "find_cheapest", "compare_balance_projection",
                          "retirement_outcome", "update_variable",
                          "calculate_age_pension"} )
    => IF last.intent = "update_variable"
       THEN last.outcome.handler \in Calculations \cup {"update_variable"}
       ELSE last.outcome.handler = last.intent

\* a find_cheapest turn answered by the find_cheapest calculation
C27_CheapestDispatched ==
    /\ last.reply = "answer"
    /\ last.intent = "find_cheapest"
    /\ last.outcome.handler = "find_cheapest"
    /\ last.outcome.kind = "computed"

\* a calculate_age_pension turn answered by the default fee comparison
C27_PensionIntentComparesFees ==
    /\ last.reply = "answer"
    /\ last.intent = "calculate_age_pension"
    /\ last.outcome.handler = "default_comparison"
    /\ last.outcome.kind = "computed"

\* the fixed ordered checklist of an intent
Checklist(intent) ==
    CASE intent = "project_balance" ->
            <<"age", "current fund", "super balance", "desired retirement age",
              "current income", "super_included">>
      [] intent = "find_cheapest" -> <<"age", "super balance">>
      [] intent = "compare_fees_nominated" ->
            <<"age", "current fund", "super balance", "nominated fund">>
      [] intent = "compare_fees_all" -> <<"age", "current fund", "super balance">>
      [] intent = "compare_balance_projection" ->
            <<"age", "current fund", "nominated fund", "super balance",
              "desired retirement age", "current income", "super_included">>
      [] intent = "retirement_outcome" ->
            <<"age", "desired retirement age", "super balance", "current fund",
              "current income", "super_included", "retirement_income_option">>
      [] OTHER -> << >>

\* the present-predicate of a variable of the checklist: for retirement_outcome
\* a retirement balance held stands for the balance, fund and income
Present(v, intent, d) ==
    LET balanceHeld == intent = "retirement_outcome" /\ GetNum(d, "retirement_balance") # 0
    IN  CASE v = "age" -> GetNum(d, "current_age") # 0
          [] v = "current fund" -> balanceHeld \/ GetStr(d, "current_fund") \notin {NoneV, ""}
          [] v = "nominated fund" -> GetStr(d, "nominated_fund") \notin {NoneV, ""}
          [] v = "super balance" -> balanceHeld \/ GetNum(d, "current_balance") # 0
          [] v = "desired retirement age" ->
                /\ GetNum(d, "retirement_age") # 0
                /\ GetNum(d, "retirement_age") > GetNum(d, "current_age")
          [] v = "current income" -> balanceHeld \/ GetNum(d, "current_income") # 0
          [] v = "super_included" ->
                \/ balanceHeld
                \/ GetNum(d, "current_income") <= 0
                \/ GetStr(d, "super_included") # NoneV
          [] v = "retirement_income_option" ->
                \/ GetStr(d, "retirement_income_option") \notin {NoneV, ""}
                \/ GetNum(d, "retirement_income") > 0

StillMissing(intent, d) ==
    LET Absent(v) == ~Present(v, intent, d)
    IN  SelectSeq(Checklist(intent), Absent)

DerivedFields ==
    {"income_net_of_super", "after_tax_income", "retirement_balance",
     "retirement_drawdown_age"}

\* C28: for every intent and every slot valuation, the missing-variable list
\* computed in process_query holds exactly the variables of the intent's fixed
\* checklist whose present-predicate is false, in checklist order and without
\* duplicates, and never a derived field; computed twice on the same slots it
\* is the same list.
C28_MissingListIsFilteredChecklist ==
    \A intent \in Intents :
        LET l == MissingVars(intent, data)
        IN  /\ l = StillMissing(intent, data)
            /\ \A i, j \in 1..Len(l) : i # j => l[i] # l[j]
            /\ \A i \in 1..Len(l) : var_map(l[i]) \notin DerivedFields
            /\ MissingVars(intent, data) = l

\* a projection asked with a retirement age below the age held: the question
\* of the turn is the head of a list that holds the retirement age
C28_RetirementAgeListed ==
    /\ last.reply = "question"
    /\ last.intent = "project_balance"
    /\ GetNum(data, "current_age") = 60
    /\ GetNum(data, "retirement_age") = 50
    /\ Len(MissingVars("project_balance", data)) >= 2
    /\ \E i \in 1..Len(MissingVars("project_balance", data)) :
          MissingVars("project_balance", data)[i] = "desired retirement age"

\* C29: whenever a turn ends in AwaitingVariable(v), v is the head of the
\* resolver's ordered missing-variable list for the session's current intent
\* and slots at the end of that turn; in particular v belongs to the current
\* intent's checklist.
C29_AwaitedIsHeadOfList ==
    (missing_var # NoneV /\ last.reply # "raised")
    => LET l == MissingVars(GetStr(data, "intent"), data)
       IN  /\ l # << >>
           /\ var_map(missing_var) = var_map(l[1])

\* a first query that leaves a variable to ask: the head of the list is awaited
C29_HeadAwaited ==
    /\ last.op = "idle"
    /\ last.reply = "question"
    /\ GetStr(data, "intent") = "project_balance"
    /\ missing_var = "current_age"
    /\ MissingVars("project_balance", data)[1] = "age"

\* after an accepted answer chat_fn asks the head of its own list: for
\* retirement_outcome it awaits the balance while the resolver's list starts
\* with the desired retirement age
C29_ChatListHeadAwaited ==
    /\ last.op = "await"
    /\ last.reply = "question"
    /\ GetStr(data, "intent") = "retirement_outcome"
    /\ missing_var = "super balance"
    /\ MissingVars("retirement_outcome", data)[1] = "desired retirement age"

\* C30: a retirement_age that is not strictly greater than current_age is
\* treated as absent everywhere: while retirement_age <= current_age no intent
\* handler and no update_variable re-run answers with a projection or a
\* drawdown, and the recomputation of the derived fields on the session's
\* slots invokes neither.
ProjectingHandlers == {"project_balance", "compare_balance_projection", "retirement_outcome"}

C30_InvalidRetirementAgeIsAbsent ==
    (/\ last.op # "init"
     /\ last.reply # "raised"
     /\ GetNum(data, "retirement_age") <= GetNum(data, "current_age"))
    => /\ ~(last.outcome.kind = "computed" /\ last.outcome.handler \in ProjectingHandlers)
       /\ ~Has(UpdateRetirementBalance(Del(data, "retirement_balance")), "retirement_balance")
       /\ ~Has(UpdateDrawdownAge(Del(data, "retirement_drawdown_age")), "retirement_drawdown_age")

\* the resolver takes a retirement age of at most the current age for a
\* missing one and asks for it
C30_AskedAgain ==
    /\ last.reply = "question"
    /\ GetNum(data, "retirement_age") # 0
    /\ GetNum(data, "retirement_age") <= GetNum(data, "current_age")
    /\ var_map(missing_var) = "retirement_age"

\* an update_variable turn stores retirement_age 50 for a user aged 60: the
\* recomputation projects the balance over no month, and so does the re-run
\* of process_project_balance
C30_ProjectedForPastRetirementAge ==
    /\ last.classified = "update_variable"
    /\ last.outcome.kind = "computed"
    /\ last.outcome.handler = "project_balance"
    /\ last.outcome.value = 100000
    /\ GetNum(data, "current_age") = 60
    /\ GetNum(data, "retirement_age") = 50
    /\ GetNum(data, "retirement_balance") = 100000
    /\ UpdateRetirementBalance(Del(data, "retirement_balance"))["retirement_balance"] = 100000

\* C31: the base tax computed by calculate_after_tax_income equals the
\* five-bracket table for every income net of super: 0 up to 18,200; 16% of the
\* excess over 18,200 up to 45,000; 4,288 plus 30% of the excess over 45,000 up
\* to 135,000; 31,288 plus 37% of the excess over 135,000 up to 190,000; 51,638
\* plus 45% of the excess over 190,000 (amounts in thousandths of a dollar).
BracketTable(n) ==
    IF n <= 18200 THEN 0
    ELSE IF n <= 45000 THEN (n - 18200) * 160
    ELSE IF n <= 135000 THEN 4288000 + (n - 45000) * 300
    ELSE IF n <= 190000 THEN 31288000 + (n - 135000) * 370
    ELSE 51638000 + (n - 190000) * 450

C31_BaseTaxIsBracketTable ==
    (calc.fn = "calculate_after_tax_income" /\ calc.done)
    => calc.base_tax_a
         = BracketTable(calculate_income_net_of_super(calc.income_a, calc.super_included,
                                                      EMPLOYER_CONTRIBUTION_RATE))

\* at the top of the tax-free bracket the loop and the table agree
C31_TaxFreeBracket ==
    /\ calc.fn = "calculate_after_tax_income"
    /\ calc.done
    /\ calc.super_included = FalseV
    /\ calc.income_a = 18200
    /\ calc.base_tax_a = 0

\* at 135,000 the loop adds the base 4,288 to the tax of the two brackets
\* below: 35,575.54 where the table gives 31,288
C31_BaseAddedToLowerBrackets ==
    /\ calc.fn = "calculate_after_tax_income"
    /\ calc.done
    /\ calc.super_included = FalseV
    /\ calc.income_a = 135000
    /\ calc.base_tax_a = 35575540
    /\ BracketTable(135000) = 31288000

\* C32: boolean coercion maps every configured true phrase of a variable to
\* True and every configured false phrase of that variable to False when the
\* phrase is given as the raw value (super_included and homeowner_status), and
\* maps a string containing no configured phrase to null.
C32_BooleanCoercion ==
    (calc.fn = "convert_variable_type" /\ calc.done)
    => /\ calc.configured = "true" => calc.result = TrueV
       /\ calc.configured = "false" => calc.result = FalseV
       /\ calc.configured = "none" => calc.result = NoneV

\* a false phrase given as the raw value and coerced to False
C32_FalsePhraseCoerced ==
    /\ calc.fn = "convert_variable_type"
    /\ calc.done
    /\ calc.variable_name = "super_included"
    /\ calc.value = <<"o", "n", " ", "t", "o", "p">>
    /\ calc.result = FalseV

\* "not included" holds the true phrase "included", which is searched first
C32_NotIncludedIsTrue ==
    /\ calc.fn = "convert_variable_type"
    /\ calc.done
    /\ calc.variable_name = "super_included"
    /\ calc.configured = "false"
    /\ calc.value = <<"n", "o", "t", " ", "i", "n", "c", "l", "u", "d", "e", "d">>
    /\ calc.result = TrueV

\* C33: the derived after_tax_income slot is the tax calculation applied to
\* the income net of super: it is computed on the same base as the
\* income_net_of_super slot (current_income / (1 + employerRate/100) when
\* super_included is true) and not on the gross current_income.
C33_AfterTaxOnNetOfSuper ==
    (/\ calc.fn = "update_calculated_values"
     /\ calc.step >= 1
     /\ Has(calc.derived, "after_tax_income")
     /\ Has(calc.derived, "income_net_of_super"))
    => calc.derived["after_tax_income"]
         = calculate_after_tax_income(calc.derived["income_net_of_super"],
                                      calc.derived["current_age"], FalseV,
                                      EMPLOYER_CONTRIBUTION_RATE)

\* super paid on top: the slot is the tax calculation on the income itself
C33_SuperOnTop ==
    /\ calc.fn = "update_calculated_values"
    /\ calc.step = 1
    /\ GetStr(calc.slots, "super_included") = FalseV
    /\ GetNum(calc.slots, "current_income") = 90000
    /\ calc.slots["current_age"] = 60
    /\ GetNum(calc.derived, "income_net_of_super") = 90000
    /\ GetNum(calc.derived, "after_tax_income") = 70412

\* super included: the slot is computed on the gross 90,000 although the
\* income net of super is 80,357
C33_TaxedOnGross ==
    /\ calc.fn = "update_calculated_values"
    /\ calc.step = 1
    /\ GetStr(calc.slots, "super_included") = TrueV
    /\ GetNum(calc.slots, "current_income") = 90000
    /\ calc.slots["current_age"] = 60
    /\ GetNum(calc.derived, "income_net_of_super") = 80357
    /\ GetNum(calc.derived, "after_tax_income") = 70412
    /\ calculate_after_tax_income(80357, 60, FalseV, EMPLOYER_CONTRIBUTION_RATE) # 70412

\* C34: project_super_balance performs exactly (retirementAge - currentAge)
\* * 12 monthly steps; in each step the fee is recomputed from the balance
\* held at the start of that step and the salary uses the number of whole
\* years elapsed; when retirementAge <= currentAge it performs no step and
\* returns the starting balance.
ProjectionMonths == (calc.retirement_age - calc.current_age) * 12

C34_MonthlySteps ==
    (calc.fn = "project_super_balance")
    => /\ calc.month >= 1
          => LET salary == GrowYears(calc.income_net_of_super, calc.wage_growth,
                                     (calc.month - 1) \div 12)
                 contribution ==
                     (salary * calc.employer_contribution_rate * 85) \div (1000 * 100 * 12)
                 fee == compute_fee_breakdown(calc.current_fund_row, calc.previous_balance) \div 12
                 x == calc.previous_balance + contribution - fee
             IN  calc.balance
                   = x + (x * NetMonthlyReturn(calc.investment_return - calc.inflation_rate))
                         \div 1000000
       /\ (calc.done /\ calc.month = Max(0, ProjectionMonths)) => calc.result = calc.balance
       /\ (calc.done /\ ProjectionMonths <= 0)
          => calc.month = 0 /\ calc.result = calc.current_balance

\* twelve years followed month by month, on a fund with fees and a growing
\* salary: the call returns the balance held after the 144th step
C34_AllMonthsRun ==
    /\ calc.fn = "project_super_balance"
    /\ calc.done
    /\ calc.current_age = 55
    /\ calc.retirement_age = 67
    /\ calc.month = 144
    /\ calc.current_balance = 50000
    /\ calc.income_net_of_super = 60000
    /\ calc.wage_growth = WAGE_GROWTH
    /\ calc.employer_contribution_rate = EMPLOYER_CONTRIBUTION_RATE
    /\ calc.current_fund_row = FundTable.ART
    /\ calc.result = calc.balance
    /\ calc.result > calc.current_balance

\* C35: in every reachable session state the session intent is one of the
\* nine enumerated values (project_balance, compare_fees_nominated,
\* compare_fees_all, find_cheapest, compare_balance_projection,
\* retirement_outcome, update_variable, calculate_age_pension, unknown),
\* whatever the extraction step returns.
EnumeratedIntents ==
    {"project_balance", "compare_fees_nominated", "compare_fees_all", "find_cheapest",
     "compare_balance_projection", "retirement_outcome", "update_variable",
     "calculate_age_pension", "unknown"}

C35_IntentEnumerated ==
    Has(data, "intent") => data["intent"] \in EnumeratedIntents

\* an extraction that returns an enumerated intent, stored as the session intent
C35_EnumeratedStored ==
    /\ last.op = "idle"
    /\ last.classified = "find_cheapest"
    /\ GetStr(data, "intent") = "find_cheapest"

\* "yes" after an answer that held a suggestion: extract_intent_variables
\* returns the intent "affirmative_response" and process_query stores it
C35_AffirmativeResponseStored ==
    /\ last.op = "idle"
    /\ last.affirm
    /\ last.intent_before \in Calculations
    /\ last.classified = "affirmative_response"
    /\ GetStr(data, "intent") = "affirmative_response"

\* C36: in an Idle turn that is not classified as update_variable, if at least
\* one of current_age, current_balance, current_income, retirement_age already
\* holds a non-zero value, then none of these four slots is changed by the
\* values extracted in that turn.
GuardedSlots == {"current_age", "current_balance", "current_income", "retirement_age"}

C36_NumericSlotsKept ==
    [][(/\ last'.op = "idle"
        /\ last'.reply # "raised"
        /\ last'.classified # "update_variable"
        /\ \E k \in GuardedSlots : GetNum(data, k) # 0)
       => \A k \in GuardedSlots : GetNum(data', k) = GetNum(data, k)]_vars

\* a second query, classified project_balance, on a session that holds the age
\* and the balance given with a find_cheapest query: both are as they were
C36_SlotsHeld ==
    /\ last.op = "idle"
    /\ last.reply # "raised"
    /\ last.classified = "project_balance"
    /\ last.intent_before = "find_cheapest"
    /\ GetNum(data, "current_age") = 60
    /\ GetNum(data, "current_balance") = 100000
    /\ GetNum(data, "current_income") = 0
    /\ GetNum(data, "retirement_age") = 0

\* C38: after every turn, awaiting_variable is set exactly when the turn
\* returned a question: a turn that dispatches an intent handler and returns
\* its answer leaves awaiting_variable empty, also when process_query is
\* entered with a state that already carries an awaiting variable.
C38_AwaitingIffQuestion ==
    (last.op # "init" /\ last.reply # "raised")
    => (missing_var # NoneV <=> last.reply \in {"question", "reask"})

\* a request that carries no awaiting variable and is answered by a handler:
\* none is awaited afterwards
C38_AnsweredAndIdle ==
    /\ last.op = "api"
    /\ last.awaiting_before = NoneV
    /\ last.reply = "answer"
    /\ last.outcome.kind = "computed"
    /\ last.outcome.handler = "project_balance"
    /\ missing_var = NoneV

\* a request whose state carries the awaiting variable current_age and every
\* slot of project_balance: the handler answers and current_age is still awaited
C38_AnsweredStillAwaiting ==
    /\ last.op = "api"
    /\ last.awaiting_before = "current_age"
    /\ last.reply = "answer"
    /\ last.outcome.kind = "computed"
    /\ last.outcome.handler = "project_balance"
    /\ missing_var = "current_age"


\* C39: for the same slots, the annual retirement income that the
\* recomputation of the derived fields passes to the drawdown calculation (and
\* hence the stored retirement_drawdown_age) equals the annual retirement
\* income the retirement_outcome handler uses for the depletion age it
\* reports, for every retirement_income_option including same_as_current.
C39_SameRetirementIncome ==
    (/\ calc.fn = "update_calculated_values"
     /\ calc.step = 2
     /\ Has(calc.derived, "retirement_drawdown_age")
     /\ calc.outcome.kind = "computed")
    => /\ DerivedAnnualIncome(calc.derived) = OutcomeAnnualIncome(calc.derived)
       /\ calc.derived["retirement_drawdown_age"] = calc.outcome.value

\* an ASFA standard: both take the standard's amount and find the same age
C39_StandardAgrees ==
    /\ calc.fn = "update_calculated_values"
    /\ calc.step = 2
    /\ GetStr(calc.slots, "retirement_income_option") = "modest_single"
    /\ Has(calc.derived, "retirement_drawdown_age")
    /\ calc.outcome.kind = "computed"
    /\ DerivedAnnualIncome(calc.derived) = OutcomeAnnualIncome(calc.derived)
    /\ calc.derived["retirement_drawdown_age"] = calc.outcome.value

\* same_as_current at 60 with retirement at 68: the derived income is taxed at
\* the current age, the handler's at the retirement age, where the seniors
\* offset applies
C39_TaxedAtDifferentAges ==
    /\ calc.fn = "update_calculated_values"
    /\ calc.step = 2
    /\ GetStr(calc.slots, "retirement_income_option") = "same_as_current"
    /\ calc.slots["current_age"] = 60
    /\ GetNum(calc.slots, "retirement_age") = 68
    /\ GetNum(calc.slots, "current_income") = 50000
    /\ Has(calc.derived, "retirement_drawdown_age")
    /\ calc.outcome.kind = "computed"
    /\ DerivedAnnualIncome(calc.derived) < OutcomeAnnualIncome(calc.derived)

\* C37: slot filling makes progress: from any state with a known intent, if
\* every question is answered by a value that is extracted and valid, and the
\* classification step keeps the intent, then after finitely many turns (at
\* most the number of variables on the intent's checklist) the intent's
\* handler is dispatched and the machine is Idle.
HandlerDispatched ==
    /\ missing_var = NoneV
    /\ last.reply = "answer"
    /\ last.outcome.kind # "none"

C37_SlotFillingProgress ==
    /\ <>HandlerDispatched
    /\ [](turn <= Len(Checklist(GetStr(data, "intent"))))

\* retirement_outcome asked with nothing known: the seventh answer completes
\* the checklist and the handler is dispatched
C37_SeventhAnswerDispatches ==
    /\ HandlerDispatched
    /\ turn = 7
    /\ GetStr(data, "intent") = "retirement_outcome"
    /\ last.outcome.handler = "retirement_outcome"
    /\ last.outcome.kind = "computed"

\* find_cheapest asked with the income mentioned: the age and the balance of
\* its checklist are answered, chat_fn then asks whether the income includes
\* super, and the handler is dispatched after the third answer
C37_ThirdAnswerForTwoVariables ==
    /\ HandlerDispatched
    /\ turn = 3
    /\ GetStr(data, "intent") = "find_cheapest"
    /\ last.awaiting_before = "super_included"
    /\ last.outcome.handler = "find_cheapest"
    /\ Len(Checklist("find_cheapest")) = 2

=============================================================================
